---- MODULE Spec2Model ----
(***************************************************************************)
(* Attachment store of Notetkr: the image cleanup service                  *)
(* (internal/services/cleanup.go) and the clipboard image inserter.        *)
(*                                                                         *)
(* Text is a sequence of symbols.  A symbol stands for a run of characters *)
(* that contains no delimiter of the code's regular expressions or of the  *)
(* path functions ("!", "[", "]", "(", ")", "<", ">", "/", "\n" are        *)
(* symbols of their own).  A path on disk is a sequence of components and  *)
(* a component is a sequence of symbols.                                   *)
(***************************************************************************)
EXTENDS Integers, Sequences, FiniteSets, TLC

(***************************************************************************)
(* Bounds of the model.                                                    *)
(***************************************************************************)
\* I/O failures (stat, open, read, write, remove) injected per behaviour.
MaxFaults == 1
\* Consecutive CleanImages runs per behaviour.
MaxRuns == 2
\* Kills of the process during a run per behaviour.
MaxKills == 1

(***************************************************************************)
(* Generic sequence helpers.                                               *)
(***************************************************************************)
RECURSIVE FirstIndexFrom(_, _, _)
\* The least index k >= i with s[k] = x, or 0 when there is none.
FirstIndexFrom(s, i, x) ==
    IF i > Len(s) THEN 0
    ELSE IF s[i] = x THEN i
    ELSE FirstIndexFrom(s, i + 1, x)

RECURSIVE Flatten(_)
Flatten(ss) == IF ss = <<>> THEN <<>> ELSE Head(ss) \o Flatten(Tail(ss))

Range(s) == {s[i] : i \in 1..Len(s)}

\* Whether sequence p is a prefix of sequence s.
IsPrefix(p, s) == Len(p) <= Len(s) /\ SubSeq(s, 1, Len(p)) = p

(***************************************************************************)
(* Symbols.  SymOrder lists the symbols in byte order (sort.Strings, used  *)
(* by filepath.Walk, compares bytes).                                      *)
(***************************************************************************)
SymOrder ==
    << "$1", "-", ".PNG", ".attachments", ".md", ".png", ".txt", "11", "13",
       "2026", "2026-11-04", "9", "<", ">", "A", "B", "Week1", "alt", "b",
       "image", "img1", "img2", "img3", "imgs", "j", "n", "pics", "sub",
       "text" >>

SymRank(x) == CHOOSE i \in 1..Len(SymOrder) : SymOrder[i] = x

\* strings.Contains(s, ".attachments") on a symbol sequence.
ContainsAttachments(s) == \E i \in 1..Len(s) : s[i] = ".attachments"

\* strings.ToLower on an extension symbol.
ToLower(x) == IF x = ".PNG" THEN ".png" ELSE x

\* filepath.Ext of a component: the suffix from its last dot.  A symbol that
\* starts with a dot holds no other dot, so the extension is the last symbol
\* when that one starts with a dot; any other tail is no known extension.
DotSyms == {".PNG", ".attachments", ".md", ".png", ".txt"}
Ext(comp) ==
    IF comp # <<>> /\ comp[Len(comp)] \in DotSyms THEN comp[Len(comp)] ELSE ""

(***************************************************************************)
(* Paths.                                                                  *)
(***************************************************************************)
RECURSIVE SplitOn(_, _)
\* strings.Split(s, sep) on a symbol sequence: the pieces between separators.
SplitOn(s, sep) ==
    LET k == FirstIndexFrom(s, 1, sep) IN
    IF k = 0 THEN <<s>>
    ELSE <<SubSeq(s, 1, k - 1)>> \o SplitOn(SubSeq(s, k + 1, Len(s)), sep)

RECURSIVE JoinWith(_, _)
\* strings.Join(parts, sep).
JoinWith(parts, sep) ==
    IF parts = <<>> THEN <<>>
    ELSE IF Len(parts) = 1 THEN parts[1]
    ELSE parts[1] \o <<sep>> \o JoinWith(Tail(parts), sep)

RECURSIVE CleanComps(_, _)
\* filepath.Clean on the components of a rooted path: empty and "."
\* components vanish, ".." removes the component before it (and is dropped
\* at the root).  acc is the cleaned prefix.
CleanComps(comps, acc) ==
    IF comps = <<>> THEN acc
    ELSE LET c == Head(comps) IN
         IF c = <<>> \/ c = <<".">> THEN CleanComps(Tail(comps), acc)
         ELSE IF c = <<"..">>
              THEN CleanComps(Tail(comps),
                              IF acc = <<>> THEN acc
                              ELSE SubSeq(acc, 1, Len(acc) - 1))
              ELSE CleanComps(Tail(comps), Append(acc, c))

\* filepath.IsAbs of a raw path string.
IsAbs(raw) == raw # <<>> /\ raw[1] = "/"

\* filepath.Dir of an absolute path.
Dir(path) == SubSeq(path, 1, Len(path) - 1)

\* Mutant of normalizeImagePath: a relative path is cleaned without being
\* joined with the directory of the document.
normalizeImagePath_Unjoined(imagePath, baseDir) ==
    CleanComps(SplitOn(imagePath, "/"), <<>>)

\* normalizeImagePath: the raw path, joined with baseDir unless absolute,
\* and cleaned.
normalizeImagePath(imagePath, baseDir) ==
    IF IsAbs(imagePath)
    THEN CleanComps(SplitOn(imagePath, "/"), <<>>)
    ELSE CleanComps(baseDir \o SplitOn(imagePath, "/"), <<>>)

RECURSIVE CommonPrefixLen(_, _)
CommonPrefixLen(a, b) ==
    IF a = <<>> \/ b = <<>> \/ Head(a) # Head(b) THEN 0
    ELSE 1 + CommonPrefixLen(Tail(a), Tail(b))

\* Mutant of RelSlash: the path from the common ancestor, without the ".."
\* steps up from base.
RelSlash_NoParentSteps(base, target) ==
    JoinWith(SubSeq(target, CommonPrefixLen(base, target) + 1, Len(target)), "/")

\* filepath.ToSlash(filepath.Rel(base, target)) of two clean absolute paths,
\* as a raw path string.
RelSlash(base, target) ==
    LET k    == CommonPrefixLen(base, target)
        ups  == [i \in 1..(Len(base) - k) |-> <<"..">>]
        rest == SubSeq(target, k + 1, Len(target))
        all  == ups \o rest
    IN IF all = <<>> THEN <<".">> ELSE JoinWith(all, "/")

\* The raw string of an absolute path.
AbsString(path) == <<"/">> \o JoinWith(path, "/")

RECURSIVE SeqLess(_, _)
\* Byte order of two components (symbol sequences).
SeqLess(a, b) ==
    IF b = <<>> THEN FALSE
    ELSE IF a = <<>> THEN TRUE
    ELSE IF Head(a) = Head(b) THEN SeqLess(Tail(a), Tail(b))
    ELSE SymRank(Head(a)) < SymRank(Head(b))

RECURSIVE PathLess(_, _)
\* The order in which filepath.Walk reaches two files of one tree:
\* directory entries are visited in sorted order, depth first.
PathLess(p, q) ==
    IF q = <<>> THEN FALSE
    ELSE IF p = <<>> THEN TRUE
    ELSE IF Head(p) = Head(q) THEN PathLess(Tail(p), Tail(q))
    ELSE SeqLess(Head(p), Head(q))

RECURSIVE SortPaths(_)
\* The paths of a set in walk order.
SortPaths(S) ==
    IF S = {} THEN <<>>
    ELSE LET m == CHOOSE p \in S : \A q \in S \ {p} : PathLess(p, q)
         IN <<m>> \o SortPaths(S \ {m})

(***************************************************************************)
(* The image marker regular expression of cleanup.go:176: "!", "[", any    *)
(* run of characters other than "]" (the alt text, first group), "]", "(", *)
(* a non-empty run of characters other than ")" (the path, second group),  *)
(* ")".  Both classes are negated single delimiters, so a match at a       *)
(* position is unique: the alt text runs to the first "]", the path to the *)
(* first ")".                                                              *)
(***************************************************************************)
NoMatch == [end |-> 0, alt |-> <<>>, path |-> <<>>]

\* The match of the marker expression that starts at position i of s, or
\* NoMatch.  end is the position of the closing ")".
MatchAt(s, i) ==
    IF ~(i + 1 <= Len(s) /\ s[i] = "!" /\ s[i + 1] = "[") THEN NoMatch
    ELSE LET k == FirstIndexFrom(s, i + 2, "]") IN
         IF k = 0 \/ k + 1 > Len(s) \/ s[k + 1] # "(" THEN NoMatch
         ELSE LET m == FirstIndexFrom(s, k + 2, ")") IN
              IF m = 0 \/ m = k + 2 THEN NoMatch
              ELSE [end  |-> m,
                    alt  |-> SubSeq(s, i + 2, k - 1),
                    path |-> SubSeq(s, k + 2, m - 1)]

RECURSIVE FindAllFrom(_, _)
\* imageRegex.FindAllStringSubmatch(line, -1): the leftmost non-overlapping
\* matches from position i on, in order.
FindAllFrom(s, i) ==
    IF i > Len(s) THEN <<>>
    ELSE LET m == MatchAt(s, i) IN
         IF m.end = 0 THEN FindAllFrom(s, i + 1)
         ELSE <<m>> \o FindAllFrom(s, m.end + 1)

\* bufio.Scanner with ScanLines: the lines of a text, without a final empty
\* line after a trailing newline.
ScanLines(content) ==
    LET parts == SplitOn(content, "\n") IN
    IF parts[Len(parts)] = <<>> THEN SubSeq(parts, 1, Len(parts) - 1) ELSE parts

\* Mutant of LineReferences: every marker is tracked, whatever its path.
LineReferences_TrackAll(filePath, lineNum, line) ==
    LET ms == FindAllFrom(line, 1)
    IN [i \in 1..Len(ms) |->
          [FilePath |-> filePath, LineNum |-> lineNum, ImagePath |-> ms[i].path]]

\* The references of one line (cleanup.go:199-212): the matches whose path
\* contains ".attachments".
LineReferences(filePath, lineNum, line) ==
    LET ms == FindAllFrom(line, 1)
        tracked == SelectSeq(ms, LAMBDA m : ContainsAttachments(m.path))
    IN [i \in 1..Len(tracked) |->
          [FilePath |-> filePath, LineNum |-> lineNum, ImagePath |-> tracked[i].path]]

\* The references of one document, in scan order.
FileReferences(filePath, content) ==
    LET lines == ScanLines(content) IN
    Flatten([n \in 1..Len(lines) |-> LineReferences(filePath, n, lines[n])])

\* The resolved absolute path of a reference (cleanup.go:66, 269).
Resolved(ref) == normalizeImagePath(ref.ImagePath, Dir(ref.FilePath))

(***************************************************************************)
(* The rewrite of one document (updateFileReferences, cleanup.go:287-315). *)
(***************************************************************************)
\* Regexp.Expand of the replacement template's path part: "$1" is the first
\* submatch (the alt text) wherever it occurs in the template.
Expand(template, alt) ==
    Flatten([i \in 1..Len(template) |->
               IF template[i] = "$1" THEN alt ELSE <<template[i]>>])

\* The match, starting at position i, of the marker expression with the
\* path group replaced by the literal raw path (regexp.QuoteMeta).
MatchLiteralAt(s, i, raw) ==
    IF ~(i + 1 <= Len(s) /\ s[i] = "!" /\ s[i + 1] = "[") THEN NoMatch
    ELSE LET k == FirstIndexFrom(s, i + 2, "]")
             m == k + 2 + Len(raw)
         IN IF k = 0 \/ m > Len(s) \/ s[k + 1] # "("
               \/ SubSeq(s, k + 2, m - 1) # raw \/ s[m] # ")"
            THEN NoMatch
            ELSE [end |-> m, alt |-> SubSeq(s, i + 2, k - 1), path |-> raw]

RECURSIVE ReplaceAllFrom(_, _, _, _)
\* pattern.ReplaceAllString(content, "![$1](relPath)") from position i on:
\* the pattern is matched against the whole text, newlines included.
ReplaceAllFrom(s, i, raw, relPath) ==
    IF i > Len(s) THEN <<>>
    ELSE LET m == MatchLiteralAt(s, i, raw) IN
         IF m.end = 0 THEN <<s[i]>> \o ReplaceAllFrom(s, i + 1, raw, relPath)
         ELSE <<"!", "[">> \o m.alt \o <<"]", "(">> \o Expand(relPath, m.alt)
              \o <<")">> \o ReplaceAllFrom(s, m.end + 1, raw, relPath)

RECURSIVE ReplaceRefs(_, _, _)
\* The loop of cleanup.go:306-311 over the references of the file.
ReplaceRefs(content, refs, relPath) ==
    IF refs = <<>> THEN content
    ELSE ReplaceRefs(ReplaceAllFrom(content, 1, Head(refs).ImagePath, relPath),
                     Tail(refs), relPath)

\* The text updateFileReferences writes back.
RewrittenContent(filePath, content, refs, newPath) ==
    ReplaceRefs(content, refs, RelSlash(Dir(filePath), newPath))

(***************************************************************************)
(* Content digests.  File bytes are sequences of small numbers; hashFile   *)
(* is SHA-256, modelled as a positional encoding, which like SHA-256 (up   *)
(* to collisions) gives different bytes different digests.                 *)
(***************************************************************************)
RECURSIVE DigestFrom(_, _)
DigestFrom(bytes, h) ==
    IF bytes = <<>> THEN h ELSE DigestFrom(Tail(bytes), h * 4 + Head(bytes) + 1)

hashFile(bytes) == DigestFrom(bytes, 0)

\* info.Size() of a file.
Size(bytes) == Len(bytes)

(***************************************************************************)
(* State.                                                                  *)
(***************************************************************************)
VARIABLES
    notesDir,          \* CleanupService.notesDir
    journalDir,        \* CleanupService.journalDir
    docs,              \* the text files on disk: path -> text
    imgs,              \* the binary files on disk: path -> bytes
    pc,                \* position of the run inside CleanImages
    run,               \* number of CleanImages runs started
    faults,            \* I/O failures injected so far
    faultKinds,        \* the kinds of I/O operation that failed so far
    stats,             \* CleanupStats of the current run
    imageFiles,        \* Step 1: the inventory
    referencedImages,  \* Step 3: the set of referenced paths
    gcIdx,             \* Step 4: loop position in imageFiles
    remainingImages,   \* Step 5: the second inventory
    hashIdx,           \* Step 5: loop position in remainingImages
    hashToPath,        \* digest -> first path seen with it
    duplicates,        \* duplicate path -> canonical path
    pendingDups,       \* keys of duplicates not yet visited by Step 6
    curDup,            \* the duplicate updateImageReferences is working on
    fileRefs,          \* its references, grouped by file, not yet rewritten
    updated,           \* its count of updated references
    docs0,             \* history: docs when the current run started
    imgs0,             \* history: imgs when the current run started
    removed,           \* history: [path, phase] of files the run removed
    removedBytes,      \* history: sum of the sizes of the files removed
    failedFor,         \* history: duplicates with a failed document rewrite
    rewrittenFor,      \* history: the rewrites written back, with the text
                       \* read and the text written
    prevStats,         \* history: the statistics the previous run returned
    faults0,           \* history: faults when the current run started
    retErr,            \* the error CleanImages returned ("" is nil)
    unhashed,          \* history: the files hashFile failed on in this run
    killed,            \* how often the process was killed during a run
    docsStart,         \* history: docs before the first run
    imgsStart,         \* history: imgs before the first run
    initialized,       \* ClipboardImageHandler.initialized
    dirs,              \* the directories os.MkdirAll has to create or finds
    calls,             \* history: the SaveClipboardImage calls and their results
    edFile,            \* the file the editor has open (filePath, or the journal
                       \* path of the date)
    edBuffer,          \* textarea.Value(): the text in the editor
    pasted,            \* history: the files whose markup pasteImage inserted
    saves,             \* history: the number of saves of the editor session
    command,           \* the command the process runs: "clean", "clean images"
    cursor,            \* CleanMenuApp.cursor
    entered,           \* history: the option enter was pressed on in the menu
    quitting,          \* Update has returned tea.Quit
    exited,            \* tea.Program.Run and the command function have returned
    done,              \* CleanImagesApp.done
    appStats,          \* CleanImagesApp.stats
    appErr,            \* CleanImagesApp.err
    tickPending,       \* a spinner.TickMsg is scheduled
    completeMsg,       \* the cleanupCompleteMsg on its way to Update
    started,           \* history: the calls of runCleanup
    received,          \* history: the cleanupCompleteMsg handled by Update
    lastKey,           \* history: the key of the last tea.KeyMsg
    findDir,           \* the names of the files of a directory
    findHash,          \* the digest findImageByHash is called with
    findResult         \* what the call of findImageByHash came to

vars == << notesDir, journalDir, docs, imgs, pc, run, faults, faultKinds, stats,
           imageFiles, referencedImages, gcIdx, remainingImages, hashIdx,
           hashToPath, duplicates, pendingDups, curDup, fileRefs, updated,
           docs0, imgs0, removed, removedBytes, failedFor, rewrittenFor,
           prevStats, faults0, retErr, unhashed, killed, docsStart, imgsStart,
           initialized, dirs, calls, edFile, edBuffer, pasted, saves, command,
           cursor, entered, quitting, exited, done, appStats, appErr,
           tickPending, completeMsg, started, received, lastKey, findDir,
           findHash, findResult >>

cfgVars  == << notesDir, journalDir >>
histVars == << docs0, imgs0, prevStats, faults0 >>
startVars == << killed, docsStart, imgsStart >>
insVars  == << initialized, dirs, calls >>
edVars   == << edFile, edBuffer, pasted, saves >>
findVars == << findDir, findHash, findResult >>
uiVars   == << command, cursor, entered, quitting, exited, done, appStats,
               appErr, tickPending, completeMsg, started, received, lastKey >>
runVars  == << pc, run, stats, imageFiles, referencedImages, gcIdx,
               remainingImages, hashIdx, hashToPath, duplicates, pendingDups,
               curDup, fileRefs, updated, removed, removedBytes, failedFor,
               rewrittenFor, retErr, unhashed >>

NoPath == <<>>

ZeroStats ==
    [UnusedImagesDeleted |-> 0, DuplicateImagesDeleted |-> 0,
     ReferencesUpdated |-> 0, BytesFreed |-> 0]

(***************************************************************************)
(* The two walks.                                                          *)
(***************************************************************************)
\* The files of a set that lie below a root directory.
Under(root, S) == {p \in S : Len(p) > Len(root) /\ IsPrefix(root, p)}

\* strings.Contains(path, ".attachments") on a path.
PathContainsAttachments(p) == \E i \in 1..Len(p) : ContainsAttachments(p[i])

imageExts == {".png", ".jpg", ".jpeg", ".gif", ".bmp", ".webp"}

\* The walk function of findAllImages (cleanup.go:140-158).
IsInventoryImage(p) ==
    PathContainsAttachments(p) /\ ToLower(Ext(p[Len(p)])) \in imageExts

\* findAllImages: the notes tree, then the journal tree, each in walk order.
findAllImages(files, nDir, jDir) ==
    SortPaths({p \in Under(nDir, files) : IsInventoryImage(p)})
    \o SortPaths({p \in Under(jDir, files) : IsInventoryImage(p)})

\* strings.HasSuffix(info.Name(), ".md").
IsMarkdown(p) == LET name == p[Len(p)] IN name # <<>> /\ name[Len(name)] = ".md"

\* The documents one walk of findAllImageReferences opens, in walk order.
WalkDocs(root, d) == SortPaths({p \in Under(root, DOMAIN d) : IsMarkdown(p)})

\* findAllImageReferences (cleanup.go:172-226); the documents in unreadable
\* fail to open and are skipped.
findAllImageReferences(d, nDir, jDir, unreadable) ==
    LET order == WalkDocs(nDir, d) \o WalkDocs(jDir, d)
    IN Flatten([i \in 1..Len(order) |->
                  IF order[i] \in unreadable THEN <<>>
                  ELSE FileReferences(order[i], d[order[i]])])

\* Step 3 (cleanup.go:62-68): the resolved paths of the references.
ReferencedSet(refs) == {Resolved(refs[i]) : i \in 1..Len(refs)}

\* Mutant of GroupByFile: every tracked reference is taken for one to
\* oldPath.
GroupByFile_EveryReference(refs, oldPath) ==
    [f \in {refs[i].FilePath : i \in 1..Len(refs)} |->
        SelectSeq(refs, LAMBDA r : r.FilePath = f)]

\* updateImageReferences, cleanup.go:266-273: the references that resolve to
\* oldPath, grouped by file, each group in scan order.
GroupByFile(refs, oldPath) ==
    LET hits == SelectSeq(refs, LAMBDA r : Resolved(r) = oldPath)
    IN [f \in {hits[i].FilePath : i \in 1..Len(hits)} |->
          SelectSeq(hits, LAMBDA r : r.FilePath = f)]

(***************************************************************************)
(* I/O failures.  Every stat, open, read, write and remove of the code may *)
(* fail; a behaviour injects at most MaxFaults failures.                   *)
(***************************************************************************)
Budget == MaxFaults - faults

\* The sets of documents that may fail to open during one scan.
UnreadableChoices == {U \in SUBSET DOMAIN docs : Cardinality(U) <= Budget}

Inject(n, kinds) ==
    /\ faults' = faults + n
    /\ faultKinds' = faultKinds \cup kinds

\* The walk function of both walks (cleanup.go:140-143, 178-181): an entry
\* handed over with an error is skipped, the function returns nil ("").
walkFunc(err) == IF err # "" THEN "" ELSE ""

\* filepath.Walk on a root: a root that cannot be listed is handed to the
\* walk function with the error, and Walk returns what the function returns.
Walk(root, unlistable) ==
    IF root \in unlistable THEN walkFunc("cannot list") ELSE walkFunc("")

\* The error of findAllImages and of findAllImageReferences
\* (cleanup.go:160-168, 218-225): the error of the first failing Walk.
WalkError(nDir, jDir, unlistable) ==
    IF Walk(nDir, unlistable) # "" THEN Walk(nDir, unlistable)
    ELSE Walk(jDir, unlistable)

\* The files a walk is handed when the directories in unlistable cannot be
\* listed: no walk enters such a directory.
Listed(S, unlistable) == {p \in S : \A r \in unlistable : ~IsPrefix(r, p)}

ListedDocs(unlistable) == [p \in Listed(DOMAIN docs, unlistable) |-> docs[p]]

\* The sets of managed roots that may fail to be listed during one walk, and
\* the documents that may fail to open beside them.
ListChoices == {L \in SUBSET {notesDir, journalDir} : Cardinality(L) <= Budget}
WalkFaultChoices ==
    { c \in { [L |-> L, U |-> U] :
                L \in ListChoices, U \in UnreadableChoices } :
        /\ Cardinality(c.L) + Cardinality(c.U) <= Budget
        /\ c.U \subseteq Listed(DOMAIN docs, c.L) }

WalkFaultKinds(c) ==
    (IF c.L = {} THEN {} ELSE {"list"}) \cup (IF c.U = {} THEN {} ELSE {"open"})

\* Mutant of StatAndRemove: the counter is incremented for every removal
\* that is attempted.
StatAndRemove_CountsAttempts(p, phase, counter) ==
    \E statOK, rmOK \in BOOLEAN :
        LET exists == p \in DOMAIN imgs
            nStat  == IF exists /\ ~statOK THEN 1 ELSE 0
            nRm    == IF exists /\ ~rmOK THEN 1 ELSE 0
            size   == IF exists THEN Size(imgs[p]) ELSE 0
        IN /\ statOK => exists
           /\ rmOK => exists
           /\ exists \/ (~statOK /\ ~rmOK)
           /\ nStat + nRm <= Budget
           /\ Inject(nStat + nRm,
                     (IF nStat = 1 THEN {"stat"} ELSE {})
                     \cup (IF nRm = 1 THEN {"remove"} ELSE {}))
           /\ stats' = [stats EXCEPT
                          !.BytesFreed = @ + (IF statOK THEN size ELSE 0),
                          ![counter] = @ + 1,
                          !.ReferencesUpdated =
                              @ + (IF phase = "dedup" THEN updated ELSE 0)]
           /\ imgs' = IF rmOK THEN [q \in DOMAIN imgs \ {p} |-> imgs[q]] ELSE imgs
           /\ removed' = IF rmOK THEN removed \cup {[path |-> p, phase |-> phase]}
                         ELSE removed
           /\ removedBytes' = removedBytes + (IF rmOK THEN size ELSE 0)

\* os.Stat then os.Remove of path p (cleanup.go:73-80 and 119-126), with the
\* counter the caller increments on a successful removal.  A file that does
\* not exist fails both calls.
StatAndRemove(p, phase, counter) ==
    \E statOK, rmOK \in BOOLEAN :
        LET exists == p \in DOMAIN imgs
            nStat  == IF exists /\ ~statOK THEN 1 ELSE 0
            nRm    == IF exists /\ ~rmOK THEN 1 ELSE 0
            size   == IF exists THEN Size(imgs[p]) ELSE 0
        IN /\ statOK => exists
           /\ rmOK => exists
           /\ exists \/ (~statOK /\ ~rmOK)
           /\ nStat + nRm <= Budget
           /\ Inject(nStat + nRm,
                     (IF nStat = 1 THEN {"stat"} ELSE {})
                     \cup (IF nRm = 1 THEN {"remove"} ELSE {}))
           /\ stats' = [stats EXCEPT
                          !.BytesFreed = @ + (IF statOK THEN size ELSE 0),
                          ![counter] = @ + (IF rmOK THEN 1 ELSE 0),
                          !.ReferencesUpdated =
                              @ + (IF phase = "dedup" THEN updated ELSE 0)]
           /\ imgs' = IF rmOK THEN [q \in DOMAIN imgs \ {p} |-> imgs[q]] ELSE imgs
           /\ removed' = IF rmOK THEN removed \cup {[path |-> p, phase |-> phase]}
                         ELSE removed
           /\ removedBytes' = removedBytes + (IF rmOK THEN size ELSE 0)

(***************************************************************************)
(* CleanImages (cleanup.go:47-130), one action per step of the run.        *)
(***************************************************************************)
\* Step 1 (cleanup.go:48-54): a run starts and takes the inventory.
FindImages ==
    /\ pc = "idle" \/ (pc \in {"done", "killed"} /\ run < MaxRuns)
    /\ \E L \in ListChoices :
          LET err == WalkError(notesDir, journalDir, L) IN
          /\ Inject(Cardinality(L), IF L = {} THEN {} ELSE {"list"})
          /\ retErr' = IF err # "" THEN "failed to find images" ELSE ""
          /\ pc' = IF err # "" THEN "done" ELSE "scan"
          /\ imageFiles' =
                IF err # "" THEN <<>>
                ELSE findAllImages(Listed(DOMAIN imgs, L), notesDir, journalDir)
    /\ run' = run + 1
    /\ stats' = ZeroStats
    /\ referencedImages' = {}
    /\ gcIdx' = 1
    /\ remainingImages' = <<>>
    /\ hashIdx' = 1
    /\ hashToPath' = <<>>
    /\ duplicates' = <<>>
    /\ pendingDups' = {}
    /\ curDup' = NoPath
    /\ fileRefs' = <<>>
    /\ updated' = 0
    /\ docs0' = docs
    /\ imgs0' = imgs
    /\ prevStats' = stats
    /\ faults0' = faults
    /\ unhashed' = {}
    /\ removed' = {}
    /\ removedBytes' = 0
    /\ failedFor' = {}
    /\ rewrittenFor' = {}
    /\ UNCHANGED << cfgVars, findVars, edVars, uiVars, insVars, startVars, docs, imgs >>

\* Steps 2 and 3 (cleanup.go:56-68): the scan and the referenced set.
ScanReferences ==
    /\ pc = "scan"
    /\ \E c \in WalkFaultChoices :
          LET err == WalkError(notesDir, journalDir, c.L) IN
          /\ referencedImages' =
                IF err # "" THEN {}
                ELSE ReferencedSet(findAllImageReferences(ListedDocs(c.L), notesDir,
                                                          journalDir, c.U))
          /\ Inject(Cardinality(c.L) + Cardinality(c.U), WalkFaultKinds(c))
          /\ retErr' = IF err # "" THEN "failed to find image references" ELSE ""
          /\ pc' = IF err # "" THEN "done" ELSE "gc"
    /\ gcIdx' = 1
    /\ UNCHANGED << cfgVars, findVars, edVars, uiVars, insVars, docs, imgs, run, stats, imageFiles, remainingImages,
                    hashIdx, hashToPath, duplicates, pendingDups, curDup,
                    fileRefs, updated, histVars, startVars, unhashed, removed,
                    removedBytes, failedFor, rewrittenFor >>

\* Mutant of CollectGarbage: the loop ends after the first unreferenced
\* image it meets.
CollectGarbage_StopsAtFirstOrphan ==
    /\ pc = "gc"
    /\ gcIdx <= Len(imageFiles)
    /\ LET imgPath == imageFiles[gcIdx] IN
          IF imgPath \in referencedImages
          THEN UNCHANGED << imgs, stats, faults, faultKinds, removed, removedBytes >>
          ELSE StatAndRemove(imgPath, "gc", "UnusedImagesDeleted")
    /\ gcIdx' = IF imageFiles[gcIdx] \in referencedImages THEN gcIdx + 1
                 ELSE Len(imageFiles) + 1
    /\ UNCHANGED << cfgVars, findVars, edVars, uiVars, insVars, docs, pc, run, imageFiles, referencedImages,
                    remainingImages, hashIdx, hashToPath, duplicates, pendingDups,
                    curDup, fileRefs, updated, histVars, startVars, retErr, unhashed, failedFor, rewrittenFor >>

\* Step 4 (cleanup.go:70-82): one iteration of the deletion loop.
CollectGarbage ==
    /\ pc = "gc"
    /\ gcIdx <= Len(imageFiles)
    /\ LET imgPath == imageFiles[gcIdx] IN
          IF imgPath \in referencedImages
          THEN UNCHANGED << imgs, stats, faults, faultKinds, removed, removedBytes >>
          ELSE StatAndRemove(imgPath, "gc", "UnusedImagesDeleted")
    /\ gcIdx' = gcIdx + 1
    /\ UNCHANGED << cfgVars, findVars, edVars, uiVars, insVars, docs, pc, run, imageFiles, referencedImages,
                    remainingImages, hashIdx, hashToPath, duplicates, pendingDups,
                    curDup, fileRefs, updated, histVars, startVars, retErr, unhashed, failedFor, rewrittenFor >>

\* Mutant of Rescan: deduplication works on the inventory of Step 1.
Rescan_FirstInventory ==
    /\ pc = "gc"
    /\ gcIdx > Len(imageFiles)
    /\ remainingImages' = imageFiles
    /\ hashIdx' = 1
    /\ hashToPath' = <<>>
    /\ duplicates' = <<>>
    /\ pc' = "hash"
    /\ UNCHANGED << cfgVars, findVars, edVars, uiVars, insVars, docs, imgs, run, faults, faultKinds, stats,
                    imageFiles, referencedImages, gcIdx, pendingDups, curDup,
                    fileRefs, updated, histVars, startVars, retErr, unhashed,
                    removed, removedBytes, failedFor, rewrittenFor >>

\* Step 5 (cleanup.go:84-92): the inventory is taken again.
Rescan ==
    /\ pc = "gc"
    /\ gcIdx > Len(imageFiles)
    /\ \E L \in ListChoices :
          LET err == WalkError(notesDir, journalDir, L) IN
          /\ Inject(Cardinality(L), IF L = {} THEN {} ELSE {"list"})
          /\ remainingImages' =
                IF err # "" THEN <<>>
                ELSE findAllImages(Listed(DOMAIN imgs, L), notesDir, journalDir)
          /\ retErr' = IF err # "" THEN "failed to re-scan images" ELSE ""
          /\ pc' = IF err # "" THEN "done" ELSE "hash"
    /\ hashIdx' = 1
    /\ hashToPath' = <<>>
    /\ duplicates' = <<>>
    /\ UNCHANGED << cfgVars, findVars, edVars, uiVars, insVars, docs, imgs, run, stats, imageFiles,
                    referencedImages, gcIdx, pendingDups, curDup, fileRefs,
                    updated, histVars, startVars, unhashed, removed, removedBytes,
                    failedFor, rewrittenFor >>

\* Mutant of PlanAfter: the digest map is overwritten without a lookup, so
\* no file is ever scheduled as a duplicate.
PlanAfter_NoLookup(imgPath, h) ==
    [h2p |-> (h :> imgPath) @@ hashToPath, dups |-> duplicates]

\* Mutant of PlanAfter: the file met last becomes the canonical one and the
\* one recorded before is scheduled as its duplicate.
PlanAfter_LastIsCanonical(imgPath, h) ==
    IF h \in DOMAIN hashToPath
    THEN [h2p |-> (h :> imgPath) @@ hashToPath,
          dups |-> (hashToPath[h] :> imgPath) @@ duplicates]
    ELSE [h2p |-> (h :> imgPath) @@ hashToPath, dups |-> duplicates]

\* The two maps after one iteration of the loop of cleanup.go:94-107 on a
\* file whose hash is h.
PlanAfter(imgPath, h) ==
    IF h \in DOMAIN hashToPath
    THEN [h2p |-> hashToPath, dups |-> (imgPath :> hashToPath[h]) @@ duplicates]
    ELSE [h2p |-> (h :> imgPath) @@ hashToPath, dups |-> duplicates]

\* Mutant of HashImage: a file that cannot be hashed ends the run with an
\* error.
HashImage_AbortsOnError ==
    /\ pc = "hash"
    /\ hashIdx <= Len(remainingImages)
    /\ LET imgPath == remainingImages[hashIdx]
           exists  == imgPath \in DOMAIN imgs
       IN \E ok \in BOOLEAN :
             /\ ok => exists
             /\ (exists /\ ~ok) => Budget > 0
             /\ Inject(IF exists /\ ~ok THEN 1 ELSE 0,
                       IF exists /\ ~ok THEN {"hash"} ELSE {})
             /\ IF ok
                THEN LET plan == PlanAfter(imgPath, hashFile(imgs[imgPath]))
                     IN /\ hashToPath' = plan.h2p
                        /\ duplicates' = plan.dups
                ELSE UNCHANGED << hashToPath, duplicates >>
             /\ unhashed' = IF ok THEN unhashed ELSE unhashed \cup {imgPath}
             /\ pc' = IF ok THEN pc ELSE "done"
             /\ retErr' = IF ok THEN retErr ELSE "failed to hash image"
             /\ hashIdx' = IF ok THEN hashIdx + 1 ELSE hashIdx
    /\ UNCHANGED << cfgVars, findVars, edVars, uiVars, insVars, docs, imgs, run, stats, imageFiles,
                    referencedImages, gcIdx, remainingImages, pendingDups, curDup,
                    fileRefs, updated, histVars, startVars, removed,
                    removedBytes, failedFor, rewrittenFor >>

\* Mutant of HashImage: the error of hashFile is dropped and the empty
\* digest it returns is entered into the plan.
HashImage_IgnoresError ==
    /\ pc = "hash"
    /\ hashIdx <= Len(remainingImages)
    /\ LET imgPath == remainingImages[hashIdx]
           exists  == imgPath \in DOMAIN imgs
       IN \E ok \in BOOLEAN :
             /\ ok => exists
             /\ (exists /\ ~ok) => Budget > 0
             /\ Inject(IF exists /\ ~ok THEN 1 ELSE 0,
                       IF exists /\ ~ok THEN {"hash"} ELSE {})
             /\ LET plan == PlanAfter(imgPath, IF ok THEN hashFile(imgs[imgPath])
                                               ELSE hashFile(<<>>))
                IN /\ hashToPath' = plan.h2p
                   /\ duplicates' = plan.dups
             /\ unhashed' = IF ok THEN unhashed ELSE unhashed \cup {imgPath}
    /\ hashIdx' = hashIdx + 1
    /\ UNCHANGED << cfgVars, findVars, edVars, uiVars, insVars, docs, imgs, pc, run, stats, imageFiles,
                    referencedImages, gcIdx, remainingImages, pendingDups, curDup,
                    fileRefs, updated, histVars, startVars, retErr, removed,
                    removedBytes, failedFor, rewrittenFor >>

\* Step 5 (cleanup.go:94-107): one iteration of the hashing loop.
HashImage ==
    /\ pc = "hash"
    /\ hashIdx <= Len(remainingImages)
    /\ LET imgPath == remainingImages[hashIdx]
           exists  == imgPath \in DOMAIN imgs
       IN \E ok \in BOOLEAN :
             /\ ok => exists
             /\ (exists /\ ~ok) => Budget > 0
             /\ Inject(IF exists /\ ~ok THEN 1 ELSE 0,
                       IF exists /\ ~ok THEN {"hash"} ELSE {})
             /\ IF ok
                THEN LET plan == PlanAfter(imgPath, hashFile(imgs[imgPath]))
                     IN /\ hashToPath' = plan.h2p
                        /\ duplicates' = plan.dups
                ELSE UNCHANGED << hashToPath, duplicates >>
             /\ unhashed' = IF ok THEN unhashed ELSE unhashed \cup {imgPath}
    /\ hashIdx' = hashIdx + 1
    /\ UNCHANGED << cfgVars, findVars, edVars, uiVars, insVars, docs, imgs, pc, run, stats, imageFiles,
                    referencedImages, gcIdx, remainingImages, pendingDups, curDup,
                    fileRefs, updated, histVars, startVars, retErr, removed,
                    removedBytes, failedFor, rewrittenFor >>

\* The plan is complete; Step 6 starts to range over the duplicates map.
StartStep6 ==
    /\ pc = "hash"
    /\ hashIdx > Len(remainingImages)
    /\ pendingDups' = DOMAIN duplicates
    /\ pc' = "dedup"
    /\ UNCHANGED << cfgVars, findVars, edVars, uiVars, insVars, docs, imgs, run, faults, faultKinds, stats, imageFiles,
                    referencedImages, gcIdx, remainingImages, hashIdx, hashToPath,
                    duplicates, curDup, fileRefs, updated, histVars, startVars, retErr, unhashed, removed,
                    removedBytes, failedFor, rewrittenFor >>

\* Step 6 (cleanup.go:110-112, 257-273): the range loop picks a duplicate (a
\* Go map is ranged over in no fixed order) and updateImageReferences scans
\* the documents for the references to it.
UpdateImageReferences ==
    /\ pc = "dedup"
    /\ \E d \in pendingDups, c \in WalkFaultChoices :
          LET err == WalkError(notesDir, journalDir, c.L) IN
          /\ pendingDups' = pendingDups \ {d}
          /\ Inject(Cardinality(c.L) + Cardinality(c.U), WalkFaultKinds(c))
          /\ IF err # ""
             THEN \* cleanup.go:113-115: the duplicate is skipped
                  /\ pc' = "dedup"
                  /\ UNCHANGED << curDup, fileRefs >>
             ELSE /\ pc' = "rewrite"
                  /\ curDup' = d
                  /\ fileRefs' =
                        GroupByFile(findAllImageReferences(ListedDocs(c.L), notesDir,
                                                           journalDir, c.U), d)
    /\ updated' = 0
    /\ UNCHANGED << cfgVars, findVars, edVars, uiVars, insVars, docs, imgs, run, stats, imageFiles, referencedImages,
                    gcIdx, remainingImages, hashIdx, hashToPath, duplicates,
                    histVars, startVars, retErr, unhashed, removed, removedBytes, failedFor, rewrittenFor >>

\* What one call of updateFileReferences can do: succeed, fail in
\* os.ReadFile, fail to open the file for writing, or fail in the write
\* after os.WriteFile has truncated the file.
RewriteOutcomes ==
    IF Budget > 0 THEN {"ok", "read", "write", "truncated"} ELSE {"ok"}

\* cleanup.go:275-281: updateFileReferences on one file of the group (the
\* group map is ranged over in no fixed order).
UpdateFileReferences ==
    /\ pc = "rewrite"
    /\ \E f \in DOMAIN fileRefs, outcome \in RewriteOutcomes :
          /\ docs' = [docs EXCEPT ![f] =
                        CASE outcome = "ok" ->
                               RewrittenContent(f, docs[f], fileRefs[f],
                                                duplicates[curDup])
                          [] outcome = "truncated" -> <<>>
                          [] OTHER -> @]
          /\ updated' = updated + (IF outcome = "ok" THEN Len(fileRefs[f]) ELSE 0)
          /\ fileRefs' = [g \in DOMAIN fileRefs \ {f} |-> fileRefs[g]]
          /\ Inject(IF outcome = "ok" THEN 0 ELSE 1,
                    IF outcome = "ok" THEN {}
                    ELSE IF outcome = "read" THEN {"read"} ELSE {"write"})
          /\ failedFor' = IF outcome = "ok" THEN failedFor
                          ELSE failedFor \cup {curDup}
          /\ rewrittenFor' =
                IF outcome = "ok"
                THEN rewrittenFor \cup
                       {[dup |-> curDup, file |-> f, canon |-> duplicates[curDup],
                         n |-> Len(fileRefs[f]), before |-> docs[f],
                         after |-> RewrittenContent(f, docs[f], fileRefs[f],
                                                    duplicates[curDup])]}
                ELSE rewrittenFor
    /\ UNCHANGED << cfgVars, findVars, edVars, uiVars, insVars, imgs, pc, run, stats, imageFiles, referencedImages,
                    gcIdx, remainingImages, hashIdx, hashToPath, duplicates,
                    pendingDups, curDup, histVars, startVars, retErr, unhashed, removed, removedBytes >>

\* cleanup.go:113-126: updateImageReferences has returned (its error is nil
\* once the scan succeeded); the count is added and the duplicate deleted.
DeleteDuplicate ==
    /\ pc = "rewrite"
    /\ DOMAIN fileRefs = {}
    /\ StatAndRemove(curDup, "dedup", "DuplicateImagesDeleted")
    /\ curDup' = NoPath
    /\ updated' = 0
    /\ pc' = "dedup"
    /\ UNCHANGED << cfgVars, findVars, edVars, uiVars, insVars, docs, run, imageFiles, referencedImages, gcIdx,
                    remainingImages, hashIdx, hashToPath, duplicates, pendingDups,
                    fileRefs, histVars, startVars, retErr, unhashed, failedFor, rewrittenFor >>

\* cleanup.go:129: the run returns its statistics.
ReturnStats ==
    /\ pc = "dedup"
    /\ pendingDups = {}
    /\ pc' = "done"
    /\ UNCHANGED << cfgVars, findVars, edVars, uiVars, insVars, docs, imgs, run, faults, faultKinds, stats, imageFiles,
                    referencedImages, gcIdx, remainingImages, hashIdx, hashToPath,
                    duplicates, pendingDups, curDup, fileRefs, updated, histVars, startVars, retErr, unhashed,
                    removed, removedBytes, failedFor, rewrittenFor >>

\* The cleanup screen quits on ctrl+c while CleanImages is still running
\* (clean_images.go:70-76), which ends the process at whatever point the run
\* has reached.  A kill that falls into the os.WriteFile of
\* updateFileReferences (cleanup.go:314) leaves the document with a prefix of
\* the new content; the empty prefix is the file just truncated.
Kill ==
    /\ pc \in {"scan", "gc", "hash", "dedup", "rewrite"}
    /\ killed < MaxKills
    /\ killed' = killed + 1
    /\ pc' = "killed"
    /\ \/ docs' = docs
       \/ /\ pc = "rewrite"
          /\ \E f \in DOMAIN fileRefs :
                LET new == RewrittenContent(f, docs[f], fileRefs[f],
                                            duplicates[curDup])
                IN \E n \in 0..(Len(new) - 1) :
                      docs' = [docs EXCEPT ![f] = SubSeq(new, 1, n)]
    /\ UNCHANGED << cfgVars, findVars, edVars, uiVars, insVars, imgs, run, faults, faultKinds, stats, imageFiles,
                    referencedImages, gcIdx, remainingImages, hashIdx, hashToPath,
                    duplicates, pendingDups, curDup, fileRefs, updated, histVars,
                    docsStart, imgsStart, retErr, unhashed, removed, removedBytes,
                    failedFor, rewrittenFor >>

\* An image marker.
Marker(alt, raw) == <<"!", "[">> \o alt \o <<"]", "(">> \o raw \o <<")">>

(***************************************************************************)
(* The clipboard image inserter (ClipboardImageHandler.SaveClipboardImage) *)
(* and the markup the editors embed.                                       *)
(***************************************************************************)
\* SaveClipboardImage calls per behaviour.
MaxCalls == 2

Pixels == {1, 2}

\* What clipboard.Read(clipboard.FmtImage) can return: nothing, bytes that
\* are no image, or one of two encodings of a picture.
ClipData ==
    { [kind |-> "none", encoding |-> "", pixels |-> 0],
      [kind |-> "garbage", encoding |-> "", pixels |-> 0] }
    \cup { [kind |-> "image", encoding |-> e, pixels |-> px] :
             e \in {"e1", "e2"}, px \in Pixels }

\* image.Decode of clipboard data that holds an image: the picture.
Decode(data) == data.pixels

\* png.Encode of a decoded image: the bytes depend on the picture alone.
PngEncode(img) == <<img, 0>>

\* Mutant of EncodedImage: the clipboard bytes are hashed and written as
\* they came, without the decode and encode round.
EncodedImage_RawBytes(data) ==
    <<data.pixels, IF data.encoding = "e1" THEN 0 ELSE 1>>

\* part_012:71-82: the bytes that are hashed and written.
EncodedImage(data) == PngEncode(Decode(data))

\* hashString[:12]: the twelve leading hex digits of the digest.  The
\* digests of the model are small numbers, told apart by their digits.
HashPrefix(h) == ToString(h)

\* fmt.Sprintf("%s-%s.png", baseName, hashString[:12]), as a component.
ImageFileName(baseName, imageBytes) ==
    <<baseName, "-", HashPrefix(hashFile(imageBytes)), ".png">>

\* os.MkdirAll: the directory and its parents exist afterwards.
MkdirAll(existing, dir) == existing \cup {SubSeq(dir, 1, k) : k \in 1..Len(dir)}

\* Mutant of SaveResult: a file that already carries the name is written
\* again.
SaveResult_Overwrites(data, imgsDir, baseName, fail) ==
    LET imageBytes == EncodedImage(data)
        filename   == ImageFileName(baseName, imageBytes)
        imagePath  == Append(imgsDir, filename)
        base == [err |-> "", filename |-> <<>>, wrote |-> FALSE, hit |-> FALSE,
                 files |-> imgs, made |-> dirs, init |-> initialized]
    IN IF ~initialized /\ fail = "init"
       THEN [base EXCEPT !.err = "failed to initialize clipboard", !.hit = TRUE]
       ELSE IF data.kind = "none"
       THEN [base EXCEPT !.err = "no image data in clipboard", !.init = TRUE]
       ELSE IF data.kind # "image"
       THEN [base EXCEPT !.err = "failed to decode clipboard image", !.init = TRUE]
       ELSE IF fail = "mkdir"
       THEN [base EXCEPT !.err = "failed to create imgs directory",
                         !.hit = TRUE, !.init = TRUE]
       ELSE IF fail = "create"
       THEN [base EXCEPT !.err = "failed to create image file", !.hit = TRUE,
                         !.init = TRUE, !.made = MkdirAll(dirs, imgsDir)]
       ELSE IF fail = "write"
       THEN [base EXCEPT !.err = "failed to write image", !.hit = TRUE,
                         !.init = TRUE, !.made = MkdirAll(dirs, imgsDir),
                         !.files = (imagePath :> <<>>) @@ imgs]
       ELSE [base EXCEPT !.filename = filename, !.wrote = TRUE, !.init = TRUE,
                         !.made = MkdirAll(dirs, imgsDir),
                         !.files = (imagePath :> imageBytes) @@ imgs]

\* Mutant of SaveResult: the directory is created before the data are
\* decoded.
SaveResult_MkdirFirst(data, imgsDir, baseName, fail) ==
    LET imageBytes == EncodedImage(data)
        filename   == ImageFileName(baseName, imageBytes)
        imagePath  == Append(imgsDir, filename)
        base == [err |-> "", filename |-> <<>>, wrote |-> FALSE, hit |-> FALSE,
                 files |-> imgs, made |-> dirs, init |-> initialized]
    IN IF ~initialized /\ fail = "init"
       THEN [base EXCEPT !.err = "failed to initialize clipboard", !.hit = TRUE]
       ELSE IF data.kind = "none"
       THEN [base EXCEPT !.err = "no image data in clipboard", !.init = TRUE]
       ELSE IF fail = "mkdir"
       THEN [base EXCEPT !.err = "failed to create imgs directory",
                         !.hit = TRUE, !.init = TRUE]
       ELSE IF data.kind # "image"
       THEN [base EXCEPT !.err = "failed to decode clipboard image", !.init = TRUE,
                         !.made = MkdirAll(dirs, imgsDir)]
       ELSE IF imagePath \in DOMAIN imgs
       THEN [base EXCEPT !.filename = filename, !.init = TRUE,
                         !.made = MkdirAll(dirs, imgsDir)]
       ELSE IF fail = "create"
       THEN [base EXCEPT !.err = "failed to create image file", !.hit = TRUE,
                         !.init = TRUE, !.made = MkdirAll(dirs, imgsDir)]
       ELSE IF fail = "write"
       THEN [base EXCEPT !.err = "failed to write image", !.hit = TRUE,
                         !.init = TRUE, !.made = MkdirAll(dirs, imgsDir),
                         !.files = (imagePath :> <<>>) @@ imgs]
       ELSE [base EXCEPT !.filename = filename, !.wrote = TRUE, !.init = TRUE,
                         !.made = MkdirAll(dirs, imgsDir),
                         !.files = (imagePath :> imageBytes) @@ imgs]

\* The result of one call of SaveClipboardImage when the step named by fail
\* ("none", "init", "mkdir", "create", "write") fails once reached.  hit
\* tells whether that step was reached.
SaveResult(data, imgsDir, baseName, fail) ==
    LET imageBytes == EncodedImage(data)
        filename   == ImageFileName(baseName, imageBytes)
        imagePath  == Append(imgsDir, filename)
        base == [err |-> "", filename |-> <<>>, wrote |-> FALSE, hit |-> FALSE,
                 files |-> imgs, made |-> dirs, init |-> initialized]
    IN IF ~initialized /\ fail = "init"
       THEN [base EXCEPT !.err = "failed to initialize clipboard", !.hit = TRUE]
       ELSE IF data.kind = "none"
       THEN [base EXCEPT !.err = "no image data in clipboard", !.init = TRUE]
       ELSE IF data.kind # "image"
       THEN [base EXCEPT !.err = "failed to decode clipboard image", !.init = TRUE]
       ELSE IF imagePath \in DOMAIN imgs
       THEN [base EXCEPT !.filename = filename, !.init = TRUE]
       ELSE IF fail = "mkdir"
       THEN [base EXCEPT !.err = "failed to create imgs directory",
                         !.hit = TRUE, !.init = TRUE]
       ELSE IF fail = "create"
       THEN [base EXCEPT !.err = "failed to create image file", !.hit = TRUE,
                         !.init = TRUE, !.made = MkdirAll(dirs, imgsDir)]
       ELSE IF fail = "write"
       THEN [base EXCEPT !.err = "failed to write image", !.hit = TRUE,
                         !.init = TRUE, !.made = MkdirAll(dirs, imgsDir),
                         !.files = (imagePath :> <<>>) @@ imgs]
       ELSE [base EXCEPT !.filename = filename, !.wrote = TRUE, !.init = TRUE,
                         !.made = MkdirAll(dirs, imgsDir),
                         !.files = (imagePath :> imageBytes) @@ imgs]

\* The directories and base names of the calls.
InsertDirs ==
    { << <<"n">>, <<".attachments">>, <<"imgs">> >>,
      << <<"j">>, <<".attachments">>, <<"imgs">> >> }
BaseNames == {"image", "img1"}

\* One call of SaveClipboardImage (part_012:58-116).
SaveClipboardImage ==
    /\ Len(calls) < MaxCalls
    /\ \E data \in ClipData, imgsDir \in InsertDirs, baseName \in BaseNames,
          fail \in {"none", "init", "mkdir", "create", "write"} :
          LET r == SaveResult(data, imgsDir, baseName, fail) IN
          /\ fail = "none" \/ (r.hit /\ Budget > 0)
          /\ Inject(IF fail = "none" THEN 0 ELSE 1,
                    IF fail = "none" THEN {} ELSE {fail})
          /\ imgs' = r.files
          /\ dirs' = r.made
          /\ initialized' = r.init
          /\ calls' = Append(calls,
                             [dir |-> imgsDir, base |-> baseName, data |-> data,
                              filename |-> r.filename, err |-> r.err,
                              wrote |-> r.wrote,
                              created |-> DOMAIN r.files \ DOMAIN imgs,
                              before |-> imgs, after |-> r.files,
                              dirsBefore |-> dirs, dirsAfter |-> r.made])
    /\ UNCHANGED << cfgVars, findVars, edVars, uiVars, docs, runVars, histVars, startVars >>

\* pasteImage (notes_editor.go:759-764): the markup embedded for a file the
\* inserter returned.
PasteImageMarkdown(filename) ==
    Marker(<<"Pasted image">>,
           <<"<", ".attachments", "/", "imgs", "/">> \o filename \o <<">">>)

(***************************************************************************)
(* The trees the runs start from.                                          *)
(***************************************************************************)
\* config.go:39-44: the two trees are siblings below the data directory.
DefaultNotesDir   == << <<"n">> >>
DefaultJournalDir == << <<"j">> >>

AttDir == DefaultNotesDir \o << <<".attachments">> >>

DocA == DefaultNotesDir \o << <<"A", ".md">> >>
DocB == DefaultJournalDir \o << <<"B", ".md">> >>

Img1 == AttDir \o << <<"img1", ".png">> >>
Img2 == AttDir \o << <<"img2", ".png">> >>
Img3 == AttDir \o << <<"img3", ".png">> >>
\* A file whose name holds the characters "$1".
ImgS == AttDir \o << <<"img1", "$1", ".png">> >>
\* An attachment of the journal tree.
ImgJ == DefaultJournalDir \o << <<".attachments">>, <<"img3", ".png">> >>

\* File contents of different sizes.
BytesX == <<1>>
BytesY == <<2, 0>>

\* A line of text around one marker.
RefLine(raw) == <<"text">> \o Marker(<<"alt">>, raw) \o <<"text">>

\* The ways a document writes the path of a file: relative to its own
\* directory, absolute, and relative inside angle brackets.
RelRaw(doc, target)   == RelSlash(Dir(doc), target)
AngleRaw(doc, target) == <<"<">> \o RelRaw(doc, target) \o <<">">>

JoinLines(lines) == JoinWith(lines, "\n") \o <<"\n">>

PlainLine == <<"text", "[", "alt", "]", "(", "text", ")">>
\* A marker that names no attachment directory.
UntrackedLine == RefLine(<<"pics", "/", "img1", ".png">>)

TextsA ==
    { JoinLines(<<RefLine(RelRaw(DocA, Img1))>>),
      JoinLines(<<RefLine(RelRaw(DocA, Img2))>>),
      JoinLines(<<RefLine(AbsString(Img2))>>),
      JoinLines(<<RefLine(AngleRaw(DocA, Img2))>>),
      JoinLines(<<RefLine(RelRaw(DocA, ImgJ))>>),
      JoinLines(<<UntrackedLine>>),
      JoinLines(<<PlainLine, RefLine(RelRaw(DocA, Img1)), RefLine(RelRaw(DocA, Img2))>>),
      JoinLines(<<RefLine(RelRaw(DocA, Img1)) \o RefLine(RelRaw(DocA, Img2)),
                  UntrackedLine>>) }

TextsB ==
    { JoinLines(<<RefLine(RelRaw(DocB, Img2))>>),
      JoinLines(<<RefLine(RelRaw(DocB, ImgJ))>>),
      JoinLines(<<PlainLine>>),
      JoinLines(<<RefLine(RelRaw(DocB, Img1)), RefLine(RelRaw(DocB, Img2))>>) }

\* Img1 is present; Img2 and ImgJ are absent, equal to Img1 or different.
ImageSets ==
    { (Img1 :> BytesX) @@ f : f \in
        { <<>>,
          (Img2 :> BytesX), (Img2 :> BytesY), (ImgJ :> BytesX),
          (Img2 :> BytesX) @@ (ImgJ :> BytesX),
          (Img2 :> BytesY) @@ (ImgJ :> BytesX),
          (Img2 :> BytesY) @@ (ImgJ :> BytesY) } }

\* The scenario of two documents that share two equal images beside an
\* unreferenced third.
ScenarioDocs ==
    (DocA :> JoinLines(<<RefLine(RelRaw(DocA, Img1)), RefLine(RelRaw(DocA, Img2))>>))
    @@ (DocB :> JoinLines(<<RefLine(RelRaw(DocB, Img1)), RefLine(RelRaw(DocB, Img2))>>))
ScenarioImgs == (Img1 :> BytesX) @@ (Img2 :> BytesX) @@ (Img3 :> BytesY)

\* A canonical file whose name holds "$1".
DollarDocs ==
    (DocA :> JoinLines(<<RefLine(RelRaw(DocA, ImgS))>>))
    @@ (DocB :> JoinLines(<<RefLine(RelRaw(DocB, Img2))>>))
DollarImgs == (ImgS :> BytesX) @@ (Img2 :> BytesX)

\* A note that holds the markup of a pasted image, and the file the
\* inserter wrote for it.
PastedName == ImageFileName("image", PngEncode(1))
ImgP == AttDir \o << <<"imgs">>, PastedName >>
PastedDocs ==
    (DocA :> JoinLines(<< <<"text">> \o PasteImageMarkdown(PastedName) >>))
    @@ (DocB :> JoinLines(<<PlainLine>>))
PastedImgs == (ImgP :> PngEncode(1))

StartTrees ==
    { [d |-> (DocA :> a) @@ (DocB :> b), i |-> im] :
        a \in TextsA, b \in TextsB, im \in ImageSets }
    \cup { [d |-> ScenarioDocs, i |-> ScenarioImgs],
           [d |-> DollarDocs, i |-> DollarImgs],
           [d |-> PastedDocs, i |-> PastedImgs] }

(***************************************************************************)
(* findImageByHash (part_013:125-143), which the older SaveClipboardImage  *)
(* calls before it computes the name (part_013:93-98).  File names and     *)
(* digests are sequences of characters here, one byte each, because the    *)
(* function slices the name by byte positions.                             *)
(***************************************************************************)
\* The longest stem of a file name, and the most files in the directory.
MaxStem == 12
MaxFiles == 2

\* hashPrefix := hash[:12] (part_013:134)
PrefixLen == 12
\* hex.EncodeToString of a SHA-256 sum (part_013:85-86) has 64 characters.
HashLen == 64

\* n times the character c.
Rep(c, n) == [i \in 1..n |-> c]

PngExt == << ".", "p", "n", "g" >>

\* The digests of two pictures.
FindHashes == {Rep("a", HashLen), Rep("b", HashLen)}

\* The file names a directory may hold: stems of every length up to MaxStem
\* with ".png", names the inserter gives, one whose digest prefix is not
\* directly before the extension, and a file that is no PNG.
FindNames ==
    {Rep("x", k) \o PngExt : k \in 0..MaxStem}
    \cup {<<"i", "-">> \o Rep(c, PrefixLen) \o PngExt : c \in {"a", "b"}}
    \cup {Rep("a", PrefixLen) \o PngExt,
          Rep("a", PrefixLen) \o <<"-", "x">> \o PngExt,
          <<"x", ".", "t", "x", "t">>}

\* The characters in byte order.
CharOrder == << "-", ".", "a", "b", "g", "i", "n", "p", "t", "x" >>
CharRank(c) == CHOOSE i \in 1..Len(CharOrder) : CharOrder[i] = c

RECURSIVE NameLess(_, _)
\* Whether the name a sorts before the name b (comparison of bytes).
NameLess(a, b) ==
    IF b = <<>> THEN FALSE
    ELSE IF a = <<>> THEN TRUE
    ELSE IF Head(a) # Head(b) THEN CharRank(Head(a)) < CharRank(Head(b))
    ELSE NameLess(Tail(a), Tail(b))

RECURSIVE SortNames(_)
\* The names of a set in lexical order, as filepath.Glob returns them.
SortNames(S) ==
    IF S = {} THEN <<>>
    ELSE LET m == CHOOSE x \in S : \A y \in S \ {x} : NameLess(x, y)
         IN <<m>> \o SortNames(S \ {m})

\* filepath.Glob(dir/*.png) (part_013:128): the names that end in ".png".
GlobPng(names) ==
    SortNames({n \in names :
                 Len(n) >= Len(PngExt)
                 /\ SubSeq(n, Len(n) - Len(PngExt) + 1, Len(n)) = PngExt})

\* The result before the call.
NoResult == [file |-> <<>>, err |-> "not called", panic |-> FALSE]

RECURSIVE FindLoop(_, _)
\* The loop of findImageByHash (part_013:135-140).  The slice expression
\* filename[len(filename)-16:len(filename)-4] has a negative bound for a
\* name of fewer than 16 bytes, and the run-time panics.
FindLoop(files, hashPrefix) ==
    IF files = <<>>
    THEN [file |-> <<>>, err |-> "no matching image found", panic |-> FALSE]
    ELSE LET filename == Head(files) IN
         IF Len(filename) < 12 THEN FindLoop(Tail(files), hashPrefix)
         ELSE IF Len(filename) - 16 < 0
         THEN [file |-> <<>>, err |-> "", panic |-> TRUE]
         ELSE IF SubSeq(filename, Len(filename) - 16 + 1, Len(filename) - 4)
                   = hashPrefix
         THEN [file |-> filename, err |-> "", panic |-> FALSE]
         ELSE FindLoop(Tail(files), hashPrefix)

\* findImageByHash (part_013:125-143).
findImageByHash(names, hash) == FindLoop(GlobPng(names), SubSeq(hash, 1, PrefixLen))

\* No call of findImageByHash.
NoFind ==
    /\ findDir = {}
    /\ findHash = <<>>
    /\ findResult = NoResult

\* No editor session, and no command of the clean family.
NoSession ==
    /\ edFile = NoPath
    /\ edBuffer = <<>>
    /\ pasted = {}
    /\ saves = 0

NoMessage == [sent |-> FALSE, stats |-> ZeroStats, err |-> ""]

NoScreen ==
    /\ cursor = 0
    /\ entered = ""
    /\ quitting = FALSE
    /\ exited = FALSE
    /\ done = FALSE
    /\ appStats = ZeroStats
    /\ appErr = ""
    /\ tickPending = FALSE
    /\ completeMsg = NoMessage
    /\ started = 0
    /\ received = 0
    /\ lastKey = ""

NoCommand == command = "" /\ NoScreen

\* The state of a process that has not started a run.
IdleRun ==
    /\ pc = "idle"
    /\ run = 0
    /\ faults = 0
    /\ faultKinds = {}
    /\ stats = ZeroStats
    /\ imageFiles = <<>>
    /\ referencedImages = {}
    /\ gcIdx = 1
    /\ remainingImages = <<>>
    /\ hashIdx = 1
    /\ hashToPath = <<>>
    /\ duplicates = <<>>
    /\ pendingDups = {}
    /\ curDup = NoPath
    /\ fileRefs = <<>>
    /\ updated = 0
    /\ docs0 = docs
    /\ imgs0 = imgs
    /\ removed = {}
    /\ removedBytes = 0
    /\ failedFor = {}
    /\ rewrittenFor = {}
    /\ prevStats = ZeroStats
    /\ faults0 = 0
    /\ retErr = ""
    /\ unhashed = {}
    /\ killed = 0
    /\ docsStart = docs
    /\ imgsStart = imgs

Init ==
    /\ notesDir = DefaultNotesDir
    /\ journalDir = DefaultJournalDir
    /\ \E t \in StartTrees : docs = t.d /\ imgs = t.i
    /\ IdleRun
    /\ initialized = FALSE
    /\ dirs = {}
    /\ calls = <<>>
    /\ NoFind
    /\ NoSession
    /\ NoCommand

Next ==
    \/ FindImages
    \/ ScanReferences
    \/ CollectGarbage
    \/ Rescan
    \/ HashImage
    \/ StartStep6
    \/ UpdateImageReferences
    \/ UpdateFileReferences
    \/ DeleteDuplicate
    \/ ReturnStats

Spec == Init /\ [][Next]_vars

\* CleanImages is one sequential function: a run that has started and can
\* take a step takes it.  The two steps that scan the documents are enabled
\* exactly where the run stands before them and leave that position, so
\* their weak fairness is stated by that position not lasting forever.
RunFairness ==
    /\ WF_vars(CollectGarbage)
    /\ WF_vars(Rescan)
    /\ WF_vars(HashImage)
    /\ WF_vars(StartStep6)
    /\ WF_vars(UpdateFileReferences)
    /\ WF_vars(DeleteDuplicate)
    /\ WF_vars(ReturnStats)
    /\ []<>(pc # "scan")
    /\ []<>~(pc = "dedup" /\ pendingDups # {})

SpecFair == Init /\ [][Next]_vars /\ RunFairness

\* Runs that may be killed and started again.
NextKill == Next \/ Kill

SpecKill == Init /\ [][NextKill]_vars

(***************************************************************************)
(* Other layouts of the store: managed roots that are nested or equal      *)
(* (NewCleanupService takes whatever notes.dir and journal.dir are         *)
(* configured), a note in a subdirectory with an attachment directory of   *)
(* its own, a document inside an attachment directory, files beside the    *)
(* attachment directories, and markers the two regular expressions read    *)
(* differently.                                                            *)
(***************************************************************************)
SubDir    == DefaultNotesDir \o << <<"sub">> >>
\* A note in a subdirectory and the attachment directory next to it.
DocSub    == SubDir \o << <<"A", ".md">> >>
LegacyDir == SubDir \o << <<".attachments">> >>
ImgL1     == LegacyDir \o << <<"img1", ".png">> >>
ImgL2     == LegacyDir \o << <<"img2", ".png">> >>
\* A document stored inside the attachment directory of the notes tree.
DocIn     == AttDir \o << <<"B", ".md">> >>
\* A picture outside every attachment directory whose file name holds the
\* characters ".attachments".
ImgOut    == DefaultNotesDir \o << <<"pics">>, <<"b", ".attachments", ".png">> >>
\* A file of an attachment directory that is no image, and an image with
\* an upper-case extension.
TxtIn     == AttDir \o << <<"img1", ".txt">> >>
ImgUp     == AttDir \o << <<"img3", ".PNG">> >>

\* The raw path with a leading "./" or "../<directory>/".
DotRaw(doc, target) == <<".", "/">> \o RelRaw(doc, target)

LegacyTexts ==
    { JoinLines(<<RefLine(RelRaw(DocSub, ImgL1))>>),
      JoinLines(<<RefLine(DotRaw(DocSub, ImgL1)), RefLine(RelRaw(DocSub, Img1))>>),
      JoinLines(<<RefLine(RelRaw(DocSub, ImgL2)), UntrackedLine>>) }

LegacyImageSets ==
    { (ImgL1 :> BytesX) @@ f @@ g :
        f \in {<<>>, (ImgL2 :> BytesX), (ImgL2 :> BytesY)},
        g \in {<<>>, (Img1 :> BytesX)} }

InsideTexts ==
    { JoinLines(<<RefLine(AbsString(Img2))>>),
      JoinLines(<<RefLine(<<"..", "/">> \o RelRaw(DocA, Img2))>>) }

InsideImageSets ==
    { (Img1 :> BytesX) @@ f @@ g :
        f \in {(Img2 :> BytesX), (Img2 :> BytesY)},
        g \in {<<>>, (ImgOut :> BytesY) @@ (TxtIn :> BytesX) @@ (ImgUp :> BytesY)} }

\* A marker that stands inside the path of another one, and a marker whose
\* alt text runs over a line break.
NestedLine == <<"!", "[", "alt", "]", "(", "text">> \o Marker(<<"alt">>, RelRaw(DocA, Img2))
BrokenAlt  == << <<"!", "[", "alt">>,
                 <<"text", "]", "(">> \o RelRaw(DocA, Img2) \o <<")">> >>
EdgeTexts ==
    { JoinLines(<<RefLine(RelRaw(DocA, Img1)), RefLine(RelRaw(DocA, Img2)),
                  NestedLine>>),
      JoinLines(<<RefLine(RelRaw(DocA, Img1)), RefLine(RelRaw(DocA, Img2))>>
                \o BrokenAlt) }

LayoutTrees ==
    { [d |-> (DocSub :> a), i |-> im] : a \in LegacyTexts, im \in LegacyImageSets }
    \cup { [d |-> (DocA :> JoinLines(<<RefLine(RelRaw(DocA, Img1))>>)) @@ (DocIn :> b),
            i |-> im] : b \in InsideTexts, im \in InsideImageSets }
    \cup { [d |-> (DocA :> a), i |-> (Img1 :> BytesX) @@ (Img2 :> BytesX)] :
             a \in EdgeTexts }

\* notes.dir and journal.dir: siblings, the journal inside the notes tree,
\* the notes inside the journal tree, and one directory for both.
RootConfigs ==
    { [n |-> DefaultNotesDir, j |-> DefaultJournalDir],
      [n |-> DefaultNotesDir, j |-> SubDir],
      [n |-> SubDir, j |-> DefaultNotesDir],
      [n |-> DefaultNotesDir, j |-> DefaultNotesDir] }

InitLayout ==
    /\ \E c \in RootConfigs : notesDir = c.n /\ journalDir = c.j
    /\ \E t \in LayoutTrees : docs = t.d /\ imgs = t.i
    /\ IdleRun
    /\ initialized = FALSE
    /\ dirs = {}
    /\ calls = <<>>
    /\ NoFind
    /\ NoSession
    /\ NoCommand

SpecLayout == InitLayout /\ [][Next]_vars

\* The inserter alone, on an empty attachment store.
InitInsert ==
    /\ notesDir = DefaultNotesDir
    /\ journalDir = DefaultJournalDir
    /\ docs = <<>>
    /\ imgs = <<>>
    /\ IdleRun
    /\ initialized = FALSE
    /\ dirs \in {{}, MkdirAll({}, AttDir \o << <<"imgs">> >>)}
    /\ calls = <<>>
    /\ NoFind
    /\ NoSession
    /\ NoCommand

NextInsert == SaveClipboardImage

SpecInsert == InitInsert /\ [][NextInsert]_vars

(***************************************************************************)
(* Properties of a maintenance run.                                        *)
(***************************************************************************)
\* The tracked references of every document of d, as the scanner reads them
\* when every document opens.
AllReferences(d) == findAllImageReferences(d, notesDir, journalDir, {})

\* Whether every tracked reference of d resolves to a file of i.
NoDangling(d, i) ==
    \A k \in 1..Len(AllReferences(d)) : Resolved(AllReferences(d)[k]) \in DOMAIN i

\* The files a phase of the current run removed.
RemovedIn(phase) == {r.path : r \in {x \in removed : x.phase = phase}}

\* C1: a duplicate for which the rewrite of some referencing document failed
\* (reading it or writing it back) is not removed by the run.
C1_DuplicateRetainedOnRewriteFailure ==
    \A p \in RemovedIn("dedup") : p \notin failedFor

\* C2: after a maintenance run completes, every tracked reference of every
\* document resolves to a file that exists.  Stated for runs that start with
\* no dangling reference.
C2_NoDanglingReferences ==
    (pc = "done" /\ NoDangling(docs0, imgs0)) => NoDangling(docs, imgs)

\* C3: the garbage collection step removes an attachment only if it is in
\* the inventory and no reference in any document resolves to its path.
C3_GarbageCollectorDeletesOnlyOrphans ==
    \A p \in RemovedIn("gc") :
        /\ p \in Range(imageFiles)
        /\ p \notin ReferencedSet(AllReferences(docs0))

\* The inventory of the files now on disk.
Inventory == findAllImages(DOMAIN imgs, notesDir, journalDir)

\* Whether the files of the inventory have pairwise different digests.
DistinctDigests ==
    \A p, q \in Range(Inventory) : p # q => hashFile(imgs[p]) # hashFile(imgs[q])

RECURSIVE BlankPathsFrom(_, _)
\* The line with the path of every image marker replaced by "*".
BlankPathsFrom(s, i) ==
    IF i > Len(s) THEN <<>>
    ELSE LET m == MatchAt(s, i) IN
         IF m.end = 0 THEN <<s[i]>> \o BlankPathsFrom(s, i + 1)
         ELSE SubSeq(s, i, m.end - Len(m.path) - 1) \o <<"*", ")">>
              \o BlankPathsFrom(s, m.end + 1)

\* Line n of doc after the run, against line n before it: the text outside
\* the marker paths is the same, a marker that resolved to a duplicate now
\* resolves to its canonical file, and every other marker path is the same.
LineRewritten(doc, n) ==
    LET lines0 == ScanLines(docs0[doc])
        lines1 == ScanLines(docs[doc])
    IN /\ n <= Len(lines1)
       /\ LET ms0 == FindAllFrom(lines0[n], 1)
              ms1 == FindAllFrom(lines1[n], 1)
          IN /\ Len(ms0) = Len(ms1)
             /\ BlankPathsFrom(lines0[n], 1) = BlankPathsFrom(lines1[n], 1)
             /\ \A k \in 1..Len(ms0) :
                   LET p0 == normalizeImagePath(ms0[k].path, Dir(doc)) IN
                   IF ContainsAttachments(ms0[k].path) /\ p0 \in DOMAIN duplicates
                   THEN /\ k <= Len(ms1)
                        /\ ContainsAttachments(ms1[k].path)
                        /\ normalizeImagePath(ms1[k].path, Dir(doc)) = duplicates[p0]
                   ELSE k <= Len(ms1) /\ ms1[k].path = ms0[k].path

\* C6: a reference on line n of a document to a file the run treats as a
\* duplicate is, after the run, a reference on line n that resolves to the
\* canonical file, the rest of the line unchanged.  Stated for runs in which
\* no I/O operation fails.
C6_RewriteCorrectness ==
    (pc = "done" /\ faults = 0) =>
        \A doc \in DOMAIN docs0 :
            LET refs == FileReferences(doc, docs0[doc]) IN
            \A k \in 1..Len(refs) :
                Resolved(refs[k]) \in DOMAIN duplicates
                    => LineRewritten(doc, refs[k].LineNum)

\* What C7 says of a run that followed another one.
SecondRunIsNoOp == stats = ZeroStats /\ docs = docs0 /\ imgs = imgs0

C8_ByteAccounting ==
    (pc = "done" /\ "stat" \notin faultKinds) => stats.BytesFreed = removedBytes

\* The documents of the scenario after the run: every reference to img2 now
\* names img1.
ScenarioDocsAfter ==
    (DocA :> JoinLines(<<RefLine(RelRaw(DocA, Img1)), RefLine(RelRaw(DocA, Img1))>>))
    @@ (DocB :> JoinLines(<<RefLine(RelRaw(DocB, Img1)), RefLine(RelRaw(DocB, Img1))>>))

\* A run on the scenario has completed without any I/O failure.
C9_Witness ==
    /\ pc = "done"
    /\ faults = 0
    /\ docs0 = ScenarioDocs
    /\ imgs0 = ScenarioImgs

\* C9: on the scenario (A.md and B.md both reference img1.png and img2.png,
\* which hold the same bytes; img3.png is referenced nowhere) a run deletes
\* img3.png and img2.png, keeps img1.png, makes every reference to img2.png
\* in both documents name img1.png, and reports 1 unused image deleted,
\* 1 duplicate deleted and 2 references updated.
C9_Scenario ==
    C9_Witness =>
        /\ DOMAIN imgs = {Img1}
        /\ RemovedIn("gc") = {Img3}
        /\ RemovedIn("dedup") = {Img2}
        /\ docs = ScenarioDocsAfter
        /\ stats.UnusedImagesDeleted = 1
        /\ stats.DuplicateImagesDeleted = 1
        /\ stats.ReferencesUpdated = 2

\* Whether some document of d holds a tracked image marker whose path is
\* wrapped in angle brackets and names file p inside the brackets.
AngleReferenced(d, p) ==
    \E k \in 1..Len(AllReferences(d)) :
        LET ref == AllReferences(d)[k]
            raw == ref.ImagePath
        IN /\ Len(raw) > 2
           /\ raw[1] = "<"
           /\ raw[Len(raw)] = ">"
           /\ normalizeImagePath(SubSeq(raw, 2, Len(raw) - 1), Dir(ref.FilePath)) = p

\* C4: an attachment that a document references by a marker whose path is
\* wrapped in angle brackets is in the set of referenced images and exists
\* after the run.  Stated for runs in which no I/O operation fails.
C4_AngleBracketReferenceKeepsFile ==
    (pc = "done" /\ faults = 0) =>
        \A p \in DOMAIN imgs0 :
            AngleReferenced(docs0, p) => (p \in referencedImages /\ p \in DOMAIN imgs)

\* Whether some tracked reference of the text of document f resolves to p.
References(f, text, p) ==
    \E k \in 1..Len(FileReferences(f, text)) :
        Resolved(FileReferences(f, text)[k]) = p

\* No duplicate has been deleted before every document that referenced it
\* when the run started was written back with the rewritten reference.
NoDuplicateDeletedBeforeRewrite ==
    \A p \in RemovedIn("dedup") :
        \A f \in DOMAIN docs0 :
            References(f, docs0[f], p) =>
                \E w \in rewrittenFor : w.dup = p /\ w.file = f

\* Every reference that resolved to an existing attachment before the first
\* run is still there and resolves to an existing file of the same content.
StartReferencesKept ==
    \A f \in DOMAIN docsStart :
        LET before == FileReferences(f, docsStart[f])
            after  == IF f \in DOMAIN docs THEN FileReferences(f, docs[f]) ELSE <<>>
        IN \A k \in 1..Len(before) :
              Resolved(before[k]) \in DOMAIN imgsStart =>
                  /\ k <= Len(after)
                  /\ Resolved(after[k]) \in DOMAIN imgs
                  /\ imgs[Resolved(after[k])] = imgsStart[Resolved(before[k])]

\* C11: at whatever point a maintenance run is killed, no duplicate has been
\* deleted before every document that referenced it was rewritten, and when
\* cleanup has been run again to completion every reference that resolved to
\* an existing attachment before the first run still resolves to an existing
\* file of the same content.
C11_KilledRunIsSafe ==
    /\ NoDuplicateDeletedBeforeRewrite
    /\ (pc = "done" /\ killed > 0) => StartReferencesKept

\* The files the deduplicator has grouped so far.
Grouped ==
    {hashToPath[h] : h \in DOMAIN hashToPath} \cup DOMAIN duplicates
    \cup {duplicates[d] : d \in DOMAIN duplicates}

\* C12: within a run every deletion of the garbage collection happens before
\* the inventory is taken again, the inventory is taken again by a walk over
\* the files that exist once the collection loop has ended, and a digest is
\* computed only after that, for files of that second inventory.
C12_CollectionThenRescanThenDigests ==
    [][ /\ (RemovedIn("gc")' \ RemovedIn("gc") # {}) =>
              /\ pc = "gc" /\ pc' = "gc"
              /\ remainingImages = <<>> /\ remainingImages' = <<>>
              /\ Grouped' = {}
        /\ (remainingImages' # remainingImages /\ pc' # "scan") =>
              /\ pc = "gc" /\ gcIdx > Len(imageFiles)
              /\ Grouped = {} /\ Grouped' = {}
              /\ imgs' = imgs
              /\ \E L \in SUBSET {notesDir, journalDir} :
                    remainingImages' =
                        findAllImages(Listed(DOMAIN imgs, L), notesDir, journalDir)
        /\ (Grouped' \ Grouped # {}) =>
              /\ pc = "hash"
              /\ remainingImages' = remainingImages
              /\ Grouped' \subseteq Range(remainingImages)
      ]_vars

\* The collection has removed a file and the deduplicator has grouped files
\* of the second inventory.
C12_Witness ==
    /\ pc = "hash"
    /\ RemovedIn("gc") # {}
    /\ DOMAIN duplicates # {}

\* C13: a run during which a managed root could not be listed returns an
\* error.  Stated for the first run of a behaviour, so that the failure is
\* one of that run.
C13_UnlistableRootIsAnError ==
    (pc = "done" /\ run = 1 /\ "list" \in faultKinds) => retErr # ""

\* A run has returned its statistics with a nil error, every loop having
\* visited all of its inputs.
RunCompleted ==
    /\ pc = "done"
    /\ retErr = ""
    /\ gcIdx > Len(imageFiles)
    /\ hashIdx > Len(remainingImages)
    /\ pendingDups = {}
    /\ DOMAIN fileRefs = {}

\* C14: a run whose inventory walk has returned comes to its end, and it ends
\* with the statistics and a nil error after every loop has gone over all of
\* its inputs, whatever stat, open, read, write or removal failed on the way.
C14_RunAlwaysCompletes ==
    /\ [](pc = "done" => RunCompleted)
    /\ (pc = "scan") ~> (pc = "done")

\* A run has ended although an operation on a file failed during it.
C14_Witness ==
    /\ RunCompleted
    /\ faults > faults0
    /\ faultKinds \cap {"stat", "remove", "hash", "open", "read", "write"} # {}

\* C16: a run creates and deletes no document, and a document that held no
\* reference to a scheduled duplicate when the run started has the content
\* it had then.
C16_DocumentsKept ==
    /\ DOMAIN docs = DOMAIN docs0
    /\ \A f \in DOMAIN docs0 :
          (\A d \in DOMAIN duplicates : ~References(f, docs0[f], d))
              => docs[f] = docs0[f]

\* A run has rewritten a document and has left alone another one that holds
\* a tracked reference.
C16_Witness ==
    /\ pc = "done"
    /\ \E f, g \in DOMAIN docs0 :
          /\ docs[f] # docs0[f]
          /\ docs[g] = docs0[g]
          /\ FileReferences(g, docs0[g]) # <<>>

\* The inventory order: the notes tree before the journal tree, walk order
\* inside a tree.
InNotesTree(p) == Under(notesDir, {p}) # {}
InventoryBefore(p, q) ==
    \/ InNotesTree(p) /\ ~InNotesTree(q)
    \/ InNotesTree(p) = InNotesTree(q) /\ PathLess(p, q)

\* The files of the second inventory that were hashed, and among them the
\* group of a digest.  No file content changes during a run.
Hashed == Range(remainingImages) \ unhashed
DigestGroup(h) == {p \in Hashed : hashFile(imgs0[p]) = h}
FirstOf(G) == CHOOSE c \in G : \A p \in G \ {c} : InventoryBefore(c, p)

\* C17: once the plan is complete and for as long as it is executed, the
\* canonical file of every digest group with more than one member is the
\* member that comes first in the inventory order, every other member is
\* scheduled as a duplicate of it, and nothing else is scheduled.
C17_CanonicalIsFirstInInventory ==
    (pc \in {"dedup", "rewrite", "done"} /\ retErr = "") =>
        /\ \A p \in Hashed :
              LET G == DigestGroup(hashFile(imgs0[p]))
                  c == FirstOf(G)
              IN /\ hashToPath[hashFile(imgs0[p])] = c
                 /\ c \notin DOMAIN duplicates
                 /\ p # c => (p \in DOMAIN duplicates /\ duplicates[p] = c)
        /\ DOMAIN duplicates \subseteq Hashed

\* A plan with a group of three members that spans both trees is being
\* executed: one duplicate is gone, the other is still to come.
C17_Witness ==
    /\ pc = "dedup"
    /\ Cardinality(DOMAIN duplicates) = 2
    /\ Cardinality(pendingDups) = 1
    /\ \E p \in DOMAIN duplicates : ~InNotesTree(p)

\* C18: the plan is complete before a document is rewritten or a duplicate
\* deleted, and once the run has deleted a duplicate it rewrites no further
\* document.
C18_StagesInOrder ==
    [][ /\ (docs' # docs \/ RemovedIn("dedup")' \ RemovedIn("dedup") # {}) =>
              /\ pc = "rewrite"
              /\ hashIdx > Len(remainingImages)
              /\ duplicates' = duplicates
        /\ docs' # docs => RemovedIn("dedup") = {}
      ]_vars

(***************************************************************************)
(* Properties of the inserter.                                             *)
(***************************************************************************)
\* Two calls with the same directory and base name whose data decode to the
\* same picture, both of which returned a filename.
SamePicturePairs ==
    { <<i, j>> \in (1..Len(calls)) \X (1..Len(calls)) :
        /\ i < j
        /\ calls[i].dir = calls[j].dir
        /\ calls[i].base = calls[j].base
        /\ calls[i].data.kind = "image"
        /\ calls[j].data.kind = "image"
        /\ calls[i].data.pixels = calls[j].data.pixels
        /\ calls[i].err = ""
        /\ calls[j].err = "" }

ReadCalls ==
    {k \in 1..Len(calls) : calls[k].err # "failed to initialize clipboard"}

\* Whether call c left the files and the directories as they were.
LeftFileSystemUnchanged(c) ==
    c.after = c.before /\ c.dirsAfter = c.dirsBefore /\ ~c.wrote

\* C15: a call that finds no image data in the clipboard is a no-op that is
\* no error: it returns an empty filename and a nil error and writes nothing.
C15_EmptyClipboardIsNoError ==
    \A k \in ReadCalls :
        calls[k].data.kind = "none" =>
            /\ calls[k].err = ""
            /\ calls[k].filename = <<>>
            /\ LeftFileSystemUnchanged(calls[k])

\* The path a call computes for its picture.
PathOf(c) == Append(c.dir, ImageFileName(c.base, EncodedImage(c.data)))

\* The calls with image data that found a file of the computed name.
CallsOnExistingName ==
    {k \in ReadCalls :
        calls[k].data.kind = "image" /\ PathOf(calls[k]) \in DOMAIN calls[k].before}

C20_UndecodableDataChangesNothing ==
    \A k \in ReadCalls :
        calls[k].data.kind = "garbage" =>
            /\ calls[k].err # ""
            /\ calls[k].filename = <<>>
            /\ LeftFileSystemUnchanged(calls[k])

\* A call with undecodable data was made while the attachment directory did
\* not exist.
C20_Witness ==
    \E k \in ReadCalls :
        /\ calls[k].data.kind = "garbage"
        /\ calls[k].dir \notin calls[k].dirsBefore

(***************************************************************************)
(* Properties of the walks, the resolution and the rewrite.                *)
(***************************************************************************)
\* Whether path p lies inside a directory named ".attachments".
InAttachmentDir(p) == \E i \in 1..(Len(p) - 1) : p[i] = <<".attachments">>

\* The documents of d that lie outside every attachment directory.
OutsideDocs(d) == [f \in {g \in DOMAIN d : ~InAttachmentDir(g)} |-> d[f]]

\* C21: a document stored inside an attachment directory contributes no
\* reference: the paths the garbage collector takes as referenced all come
\* from documents outside the attachment directories, and no document
\* inside one is rewritten.
C21_ScannerSkipsAttachmentDirectories ==
    /\ referencedImages \subseteq ReferencedSet(AllReferences(OutsideDocs(docs0)))
    /\ \A f \in DOMAIN docs0 : InAttachmentDir(f) => docs[f] = docs0[f]

\* Whether p is an image file, by the allow-list, inside an attachment
\* directory of one of the two managed trees.
IsAttachmentImage(p) ==
    /\ IsPrefix(notesDir, p) \/ IsPrefix(journalDir, p)
    /\ InAttachmentDir(p)
    /\ ToLower(Ext(p[Len(p)])) \in imageExts

\* C22: the inventory of a run holds exactly the files that lie inside an
\* attachment directory of a managed tree and carry an allow-listed
\* extension in any letter case, and a run deletes only such files.
C22_InventoryIsAttachmentImages ==
    /\ (pc \notin {"idle", "done"} /\ "list" \notin faultKinds)
          => Range(imageFiles) = {p \in DOMAIN imgs0 : IsAttachmentImage(p)}
    /\ \A r \in removed : IsAttachmentImage(r.path)

\* The markers of a text, line by line, whose path satisfies Keep.
MarkersWhere(text, Keep(_)) ==
    LET lines == ScanLines(text) IN
    [n \in 1..Len(lines) |->
        SelectSeq(FindAllFrom(lines[n], 1), LAMBDA m : Keep(m.path))]

\* The markers whose path names no attachment directory.
UntrackedMarkers(text) == MarkersWhere(text, LAMBDA raw : ~ContainsAttachments(raw))

\* The files the markers of document f name with a path that holds
\* ".attachments".
TrackedTargets(f, text) ==
    LET ms == Flatten(MarkersWhere(text, ContainsAttachments))
    IN {normalizeImagePath(ms[k].path, Dir(f)) : k \in 1..Len(ms)}

\* The number of markers of document f whose path holds ".attachments" and
\* resolves to p.
TrackedCount(f, text, p) ==
    LET ms == Flatten(MarkersWhere(text, ContainsAttachments))
    IN Cardinality({k \in 1..Len(ms) : normalizeImagePath(ms[k].path, Dir(f)) = p})

OnlyPathsOfChanged(f, before, after, dup) ==
    LET l0 == SplitOn(before, "\n")
        l1 == SplitOn(after, "\n")
    IN /\ Len(l0) = Len(l1)
       /\ \A n \in 1..Len(l0) :
             LET ms0 == FindAllFrom(l0[n], 1)
                 ms1 == FindAllFrom(l1[n], 1)
             IN /\ BlankPathsFrom(l0[n], 1) = BlankPathsFrom(l1[n], 1)
                /\ Len(ms0) = Len(ms1)
                /\ \A k \in 1..Len(ms0) :
                      \/ /\ ContainsAttachments(ms0[k].path)
                         /\ normalizeImagePath(ms0[k].path, Dir(f)) = dup
                      \/ k <= Len(ms1) /\ ms1[k].path = ms0[k].path

\* C25: the text written back for a (duplicate, canonical) pair differs
\* from the text read only in the raw paths of the markers that resolve to
\* the duplicate; every other marker, every alt text and all other content
\* are the same.
C25_OnlyDuplicatePathsChange ==
    faults = 0 =>
        \A w \in rewrittenFor :
            OnlyPathsOfChanged(w.file, w.before, w.after, w.dup)

\* C26: the path written for a reference is the forward-slash relative
\* path from the directory of the document to the canonical file, and
\* scanning the text written back yields a reference on the same line
\* with that path, resolving to the canonical file.  Stated for runs in
\* which no I/O operation fails.
C26_WrittenPathRoundTrips ==
    faults = 0 =>
        \A w \in rewrittenFor :
            LET r0 == FileReferences(w.file, w.before)
                r1 == FileReferences(w.file, w.after)
            IN \A k \in 1..Len(r0) :
                  Resolved(r0[k]) = w.dup =>
                      \E j \in 1..Len(r1) :
                          /\ r1[j].LineNum = r0[k].LineNum
                          /\ r1[j].ImagePath = RelSlash(Dir(w.file), w.canon)
                          /\ Resolved(r1[j]) = w.canon

RECURSIVE CountSum(_)
\* The sum of the reference counts of a set of write-backs.
CountSum(W) ==
    IF W = {} THEN 0
    ELSE LET w == CHOOSE x \in W : TRUE IN w.n + CountSum(W \ {w})

\* C27: ReferencesUpdated is the number of references that resolved to a
\* scheduled duplicate in the documents that were written back; a document
\* whose read or write-back failed adds nothing to the count, is left as it
\* was, and is not tried again for that duplicate.
C27_ReferencesUpdatedCount ==
    [][ /\ (pc = "rewrite" /\ pc' = "rewrite" /\ faults' > faults) =>
              /\ docs' = docs
              /\ updated' = updated
              /\ DOMAIN fileRefs' \subseteq DOMAIN fileRefs
              /\ DOMAIN fileRefs' # DOMAIN fileRefs
        /\ (pc' = "done" /\ retErr' = "") =>
              stats'.ReferencesUpdated = CountSum(rewrittenFor')
      ]_vars

\* The file a relative raw path without ".." names when it is opened from
\* directory dir: the names of the path, one below the other, under dir.
NamedFrom(dir, raw) ==
    dir \o SelectSeq(SplitOn(raw, "/"), LAMBDA c : c # <<>> /\ c # <<".">>)

\* Whether raw is a relative path that steps into the attachment directory
\* next to the document and nowhere upwards.
IsLegacyRaw(raw) ==
    /\ ~IsAbs(raw)
    /\ <<"..">> \notin Range(SplitOn(raw, "/"))
    /\ NamedFrom(<<>>, raw) # <<>>
    /\ NamedFrom(<<>>, raw)[1] = <<".attachments">>

\* The references of the documents in a subdirectory of a managed root to a
\* file of the attachment directory next to the document.
LegacyReferences ==
    LET refs == AllReferences(docs0) IN
    { refs[k] : k \in { i \in 1..Len(refs) :
                          /\ IsLegacyRaw(refs[i].ImagePath)
                          /\ Dir(refs[i].FilePath) \notin {notesDir, journalDir} } }

\* A run has collected an orphan and returned, and the attachment next to a
\* note in a subdirectory, which that note references, is still there.
C28_Witness ==
    /\ pc = "done"
    /\ RemovedIn("gc") # {}
    /\ \E r \in LegacyReferences :
          /\ NamedFrom(Dir(r.FilePath), r.ImagePath) \in Range(imageFiles)
          /\ NamedFrom(Dir(r.FilePath), r.ImagePath) \in DOMAIN imgs

\* C28: a raw path is joined with the directory of its document and
\* normalised unless it is absolute, so a reference from a note in a
\* subdirectory to a file of the attachment directory next to it resolves to
\* the path under which the inventory lists that file, and the garbage
\* collector keeps the file.  The last part is stated for the scans that
\* could list every directory and open every document.
C28_LegacyReferenceResolves ==
    /\ \A r \in LegacyReferences :
          /\ Resolved(r) = NamedFrom(Dir(r.FilePath), r.ImagePath)
          /\ Resolved(r) \in DOMAIN imgs0 /\ IsInventoryImage(Resolved(r))
                /\ pc # "idle" /\ "list" \notin faultKinds
                => Resolved(r) \in Range(imageFiles)
          /\ pc \notin {"idle", "scan"} /\ faultKinds \cap {"list", "open"} = {}
                => Resolved(r) \in referencedImages
    /\ \A p \in referencedImages : p \notin RemovedIn("gc")

\* A file could not be hashed, two files listed after it hold equal bytes,
\* and the run has removed the duplicate among them and returned.
C29_Witness ==
    /\ pc = "done"
    /\ \E p \in unhashed : p \in DOMAIN imgs
    /\ \E d \in RemovedIn("dedup") :
          \E p \in unhashed : InventoryBefore(p, duplicates[d])

\* C29: a file whose content cannot be read for hashing is skipped: it is
\* neither the canonical file of a digest nor a scheduled duplicate, the
\* deduplication neither deletes it nor rewrites a reference to or from it,
\* and the files that could be hashed are deduplicated all the same.
C29_UnhashedFileSkipped ==
    /\ \A p \in unhashed :
          /\ p \notin DOMAIN duplicates
          /\ \A h \in DOMAIN hashToPath : hashToPath[h] # p
          /\ \A d \in DOMAIN duplicates : duplicates[d] # p
          /\ p \notin RemovedIn("dedup")
          /\ \A w \in rewrittenFor : w.dup # p /\ w.canon # p
    /\ (pc \in {"dedup", "rewrite", "done"} /\ retErr = "" /\ unhashed # {}) =>
          \A p \in Hashed : \A q \in Hashed \ {p} :
              hashFile(imgs0[p]) = hashFile(imgs0[q])
                  => p \in DOMAIN duplicates \/ q \in DOMAIN duplicates

\* C30: no file is scheduled as a duplicate of itself, and the canonical
\* file of every digest is still there when the run has returned, whether
\* the two managed roots are siblings, nested or the same directory.
\* Stated for runs in which no I/O operation fails.
C30_CanonicalFileSurvives ==
    faults = 0 =>
        /\ \A d \in DOMAIN duplicates : duplicates[d] # d
        /\ pc = "done" =>
              \A h \in DOMAIN hashToPath : hashToPath[h] \in DOMAIN imgs

(***************************************************************************)
(* An editor session beside the maintenance runs of a separate "clean      *)
(* images" command (commands/clean.go:50-61): the editor pastes images     *)
(* into its buffer and saves the buffer, the run works on the files.       *)
(***************************************************************************)
\* Successful saves of the session per behaviour.
MaxSaves == 1

\* GetJournalPathForDate (part_002:329-337): the entry of a date lies under
\* <journalDir>/<year>/<month>/Week<n>/.
DocJ ==
    DefaultJournalDir
    \o << <<"2026">>, <<"11">>, <<"Week1">>, <<"2026-11-04", ".md">> >>

\* The files an editor session works on: a note at the root of the notes
\* tree, a note in a subdirectory, and a journal entry.
EditorFiles == {DocA, DocSub, DocJ}

\* What the clipboard holds when the user pastes: nothing, or a picture.
EditorClips ==
    {d \in ClipData :
        d.kind = "none" \/ (d.kind = "image" /\ d.encoding = "e1" /\ d.pixels = 1)}

\* pasteImage (notes_editor.go:748-751, journal_editor.go:863-867): the
\* image directory of the tree of the editor.
EditorImgsDir ==
    (IF IsPrefix(journalDir, edFile) THEN journalDir ELSE notesDir)
    \o << <<".attachments">>, <<"imgs">> >>

\* The "alt+v" case of the editors (notes_editor.go:454-477,
\* journal_editor.go:456-479) with pasteImage: HasImage, SaveClipboardImage,
\* and the markup inserted at the cursor, here the start or the end of the
\* buffer.
EditorPaste ==
    /\ edFile # NoPath
    /\ Len(calls) < MaxCalls
    /\ \E data \in EditorClips, fail \in {"none", "init", "mkdir", "create", "write"},
          pos \in {0, Len(edBuffer)} :
          LET r == SaveResult(data, EditorImgsDir, "image", fail)
              hasImage == r.init /\ data.kind # "none"
          IN /\ fail = "none" \/ (r.hit /\ Budget > 0)
             /\ Inject(IF fail = "none" THEN 0 ELSE 1,
                       IF fail = "none" THEN {} ELSE {fail})
             /\ imgs' = r.files
             /\ dirs' = r.made
             /\ initialized' = r.init
             /\ calls' = IF ~hasImage THEN calls
                         ELSE Append(calls,
                                [dir |-> EditorImgsDir, base |-> "image",
                                 data |-> data, filename |-> r.filename,
                                 err |-> r.err, wrote |-> r.wrote,
                                 created |-> DOMAIN r.files \ DOMAIN imgs,
                                 before |-> imgs, after |-> r.files,
                                 dirsBefore |-> dirs, dirsAfter |-> r.made])
             /\ edBuffer' = IF r.err # "" THEN edBuffer
                            ELSE SubSeq(edBuffer, 1, pos)
                                 \o PasteImageMarkdown(r.filename)
                                 \o SubSeq(edBuffer, pos + 1, Len(edBuffer))
             /\ pasted' = IF r.err # "" THEN pasted
                          ELSE pasted \cup {Append(EditorImgsDir, r.filename)}
    /\ UNCHANGED << cfgVars, findVars, uiVars, docs, runVars, histVars, startVars, edFile,
                    saves >>

\* The "ctrl+s" case with saveNote / saveJournal (notes_editor.go:181-189,
\* journal_editor.go:198-214): the buffer is written to the file, or the
\* write fails.
EditorSave ==
    /\ edFile # NoPath
    /\ saves < MaxSaves
    /\ \E ok \in BOOLEAN :
          /\ ~ok => Budget > 0
          /\ Inject(IF ok THEN 0 ELSE 1, IF ok THEN {} ELSE {"save"})
          /\ docs' = IF ok
                     THEN [f \in DOMAIN docs \cup {edFile} |->
                             IF f = edFile THEN edBuffer ELSE docs[f]]
                     ELSE docs
          /\ saves' = IF ok THEN saves + 1 ELSE saves
    /\ UNCHANGED << cfgVars, findVars, uiVars, insVars, imgs, runVars, histVars, startVars,
                    edFile, edBuffer, pasted >>

\* The documents and images beside the file of the editor: a journal page
\* that references two equal images.
EditorDocs ==
    (DocB :> JoinLines(<<RefLine(RelRaw(DocB, Img1)), RefLine(RelRaw(DocB, Img2))>>))
EditorImgs == (Img1 :> BytesX) @@ (Img2 :> BytesX)

\* The editor has loaded its file (loadNote, notes_editor.go:169-179).
InitEditor ==
    /\ notesDir = DefaultNotesDir
    /\ journalDir = DefaultJournalDir
    /\ edFile \in EditorFiles
    /\ docs = (edFile :> JoinLines(<<PlainLine>>)) @@ EditorDocs
    /\ imgs = EditorImgs
    /\ IdleRun
    /\ initialized = FALSE
    /\ dirs = {}
    /\ calls = <<>>
    /\ NoFind
    /\ edBuffer = docs[edFile]
    /\ pasted = {}
    /\ saves = 0
    /\ NoCommand

NextEditor == Next \/ EditorPaste \/ EditorSave

SpecEditor == InitEditor /\ [][NextEditor]_vars

(***************************************************************************)
(* The commands of the clean family (commands/clean.go): "clean" opens the *)
(* menu, "clean images" opens the cleanup screen, which starts the         *)
(* maintenance run beside the update loop and waits for its message.       *)
(***************************************************************************)
\* The keys the user may press.
Keys == {"up", "down", "k", "j", "enter", "q", "esc", "ctrl+c", "x"}

\* The keys of one kind each for the cleanup screen: those that quit once
\* the run is done, the one that always quits, and one other key.
ScreenKeys == {"enter", "q", "esc", "ctrl+c", "x"}

\* NewCleanMenuApp (part_004:37-54): the commands of the options.
MenuOptions == << "images", "exit" >>

\* CleanMenuApp.Update (part_004:60-89) on a key: the cursor, and whether
\* tea.Quit is returned.
CleanMenuUpdate(cur, k) ==
    IF k \in {"ctrl+c", "q", "esc"} THEN [cursor |-> cur, quit |-> TRUE]
    ELSE IF k \in {"up", "k"}
         THEN [cursor |-> IF cur > 0 THEN cur - 1 ELSE cur, quit |-> FALSE]
    ELSE IF k \in {"down", "j"}
         THEN [cursor |-> IF cur < Len(MenuOptions) - 1 THEN cur + 1 ELSE cur,
               quit |-> FALSE]
    ELSE IF k = "enter" THEN [cursor |-> cur, quit |-> TRUE]
    ELSE [cursor |-> cur, quit |-> FALSE]

\* A key reaches the menu.
MenuKey ==
    /\ command = "clean"
    /\ ~quitting
    /\ \E k \in Keys :
          LET r == CleanMenuUpdate(cursor, k) IN
          /\ lastKey' = k
          /\ cursor' = r.cursor
          /\ quitting' = r.quit
          /\ entered' = IF k = "enter" THEN MenuOptions[cursor + 1] ELSE entered
    /\ UNCHANGED << cfgVars, findVars, edVars, insVars, docs, imgs, runVars, histVars,
                    startVars, faults, faultKinds, command, exited, done,
                    appStats, appErr, tickPending, completeMsg, started,
                    received >>

\* runCleanMenu and runCleanImages (clean.go:40-48, 50-61): Run returns once
\* Update has returned tea.Quit, and the command function returns.
CommandReturns ==
    /\ command # ""
    /\ quitting
    /\ ~exited
    /\ exited' = TRUE
    /\ UNCHANGED << cfgVars, findVars, edVars, insVars, docs, imgs, runVars, histVars,
                    startVars, faults, faultKinds, command, cursor, entered,
                    quitting, done, appStats, appErr, tickPending, completeMsg,
                    started, received, lastKey >>

\* Mutant of CleanImagesUpdate: a key pressed during the run marks the
\* screen as done.
CleanImagesUpdate_DoneOnKey(m, msg) ==
    IF msg.type = "key"
    THEN [done |-> TRUE, stats |-> m.stats, err |-> m.err,
          quit |-> IF m.done THEN msg.key \in {"q", "esc", "ctrl+c", "enter"}
                   ELSE msg.key = "ctrl+c",
          tick |-> FALSE]
    ELSE IF msg.type = "complete"
    THEN [done |-> TRUE, stats |-> msg.stats, err |-> msg.err, quit |-> FALSE,
          tick |-> FALSE]
    ELSE [done |-> m.done, stats |-> m.stats, err |-> m.err, quit |-> FALSE,
          tick |-> ~m.done]

\* CleanImagesApp.Update (clean_images.go:61-93): the fields after the
\* message, whether tea.Quit is returned, and whether the next spinner tick
\* is scheduled.
CleanImagesUpdate(m, msg) ==
    IF msg.type = "key"
    THEN [done |-> m.done, stats |-> m.stats, err |-> m.err,
          quit |-> IF m.done THEN msg.key \in {"q", "esc", "ctrl+c", "enter"}
                   ELSE msg.key = "ctrl+c",
          tick |-> FALSE]
    ELSE IF msg.type = "complete"
    THEN [done |-> TRUE, stats |-> msg.stats, err |-> msg.err, quit |-> FALSE,
          tick |-> FALSE]
    ELSE [done |-> m.done, stats |-> m.stats, err |-> m.err, quit |-> FALSE,
          tick |-> ~m.done]

\* The fields of the screen that Update reads and writes.
ScreenModel == [done |-> done, stats |-> appStats, err |-> appErr]

\* CleanImagesApp.Init (clean_images.go:49-54): the first spinner tick and
\* runCleanup are handed to the runtime.
CleanImagesInit ==
    /\ command = "clean images"
    /\ started = 0
    /\ started' = 1
    /\ tickPending' = TRUE
    /\ UNCHANGED << cfgVars, findVars, edVars, insVars, docs, imgs, runVars, histVars,
                    startVars, faults, faultKinds, command, cursor, entered,
                    quitting, exited, done, appStats, appErr, completeMsg,
                    received, lastKey >>

\* While runCleanup is running: the process lives and the run has not
\* returned.
CleanupRunning ==
    /\ command = "clean images"
    /\ started = 1
    /\ ~exited
    /\ pc # "done"

\* runCleanup (clean_images.go:56-59) takes a step of the run.
RunStep == CleanupRunning /\ Next

\* The run has returned: runCleanup returns the cleanupCompleteMsg.
RunReturns ==
    /\ command = "clean images"
    /\ started = 1
    /\ ~exited
    /\ pc = "done"
    /\ ~completeMsg.sent
    /\ received = 0
    /\ completeMsg' = [sent |-> TRUE, stats |-> stats, err |-> retErr]
    /\ UNCHANGED << cfgVars, findVars, edVars, insVars, docs, imgs, runVars, histVars,
                    startVars, faults, faultKinds, command, cursor, entered,
                    quitting, exited, done, appStats, appErr, tickPending,
                    started, received, lastKey >>

\* A message reaches Update of the screen: the completion message, a
\* spinner tick, or a key.
ScreenApply(r) ==
    /\ done' = r.done
    /\ appStats' = r.stats
    /\ appErr' = r.err
    /\ quitting' = r.quit

HandleComplete ==
    /\ command = "clean images"
    /\ ~quitting
    /\ completeMsg.sent
    /\ ScreenApply(CleanImagesUpdate(ScreenModel,
                     [type |-> "complete", key |-> "",
                      stats |-> completeMsg.stats, err |-> completeMsg.err]))
    /\ completeMsg' = NoMessage
    /\ received' = received + 1
    /\ UNCHANGED << cfgVars, findVars, edVars, insVars, docs, imgs, runVars, histVars,
                    startVars, faults, faultKinds, command, cursor, entered,
                    exited, tickPending, started, lastKey >>

HandleTick ==
    /\ command = "clean images"
    /\ ~quitting
    /\ tickPending
    /\ LET r == CleanImagesUpdate(ScreenModel,
                  [type |-> "tick", key |-> "", stats |-> ZeroStats, err |-> ""])
       IN /\ ScreenApply(r)
          /\ tickPending' = r.tick
    /\ UNCHANGED << cfgVars, findVars, edVars, insVars, docs, imgs, runVars, histVars,
                    startVars, faults, faultKinds, command, cursor, entered,
                    exited, completeMsg, started, received, lastKey >>

HandleKey ==
    /\ command = "clean images"
    /\ ~quitting
    /\ started = 1
    /\ \E k \in ScreenKeys :
          /\ ScreenApply(CleanImagesUpdate(ScreenModel,
                           [type |-> "key", key |-> k, stats |-> ZeroStats,
                            err |-> ""]))
          /\ lastKey' = k
    /\ UNCHANGED << cfgVars, findVars, edVars, insVars, docs, imgs, runVars, histVars,
                    startVars, faults, faultKinds, command, cursor, entered,
                    exited, tickPending, completeMsg, started, received >>

\* The trees the commands start on.
CommandTrees ==
    { [d |-> EditorDocs, i |-> EditorImgs],
      [d |-> ScenarioDocs, i |-> ScenarioImgs] }

\* main has parsed the command line; the menu or the screen is constructed
\* (NewCleanMenuApp, part_004:37-54; NewCleanImagesApp, clean_images.go:37-47).
InitCommands ==
    /\ notesDir = DefaultNotesDir
    /\ journalDir = DefaultJournalDir
    /\ \E t \in CommandTrees : docs = t.d /\ imgs = t.i
    /\ IdleRun
    /\ initialized = FALSE
    /\ dirs = {}
    /\ calls = <<>>
    /\ NoFind
    /\ NoSession
    /\ command \in {"clean", "clean images"}
    /\ NoScreen

NextCommands ==
    \/ MenuKey
    \/ CommandReturns
    \/ CleanImagesInit
    \/ RunStep
    \/ RunReturns
    \/ HandleComplete
    \/ HandleTick
    \/ HandleKey

SpecCommands == InitCommands /\ [][NextCommands]_vars

\* The runtime runs the commands it was handed and delivers their messages,
\* and the run takes its steps while the process lives; the user is under
\* no obligation to press a key.
ScreenFairness ==
    /\ WF_vars(CleanImagesInit)
    /\ WF_vars(RunReturns)
    /\ WF_vars(HandleComplete)
    /\ WF_vars(CleanupRunning /\ CollectGarbage)
    /\ WF_vars(CleanupRunning /\ Rescan)
    /\ WF_vars(CleanupRunning /\ HashImage)
    /\ WF_vars(CleanupRunning /\ StartStep6)
    /\ WF_vars(CleanupRunning /\ UpdateFileReferences)
    /\ WF_vars(CleanupRunning /\ DeleteDuplicate)
    /\ WF_vars(CleanupRunning /\ ReturnStats)
    /\ []<>~(CleanupRunning /\ pc \in {"idle", "scan"})
    /\ []<>~(CleanupRunning /\ pc = "dedup" /\ pendingDups # {})

SpecCommandsFair == InitCommands /\ [][NextCommands]_vars /\ ScreenFairness

(***************************************************************************)
(* findImageByHash on the directories and digests it may be given.         *)
(***************************************************************************)
\* SaveClipboardImage (part_013:88-98) calls findImageByHash once.
FindImageByHash ==
    /\ findHash # <<>>
    /\ findResult = NoResult
    /\ findResult' = findImageByHash(findDir, findHash)
    /\ UNCHANGED << cfgVars, edVars, uiVars, insVars, docs, imgs, runVars,
                    histVars, startVars, faults, faultKinds, findDir, findHash >>

InitFind ==
    /\ notesDir = DefaultNotesDir
    /\ journalDir = DefaultJournalDir
    /\ docs = [f \in {} |-> <<>>]
    /\ imgs = [f \in {} |-> <<>>]
    /\ IdleRun
    /\ initialized = TRUE
    /\ dirs = {}
    /\ calls = <<>>
    /\ NoSession
    /\ NoCommand
    /\ findDir \in {S \in SUBSET FindNames : Cardinality(S) <= MaxFiles}
    /\ findHash \in FindHashes
    /\ findResult = NoResult

NextFind == FindImageByHash

SpecFind == InitFind /\ [][NextFind]_vars

\* C31: an attachment that a document of the tree references is not removed
\* by the garbage collection step, also when that document cannot be opened
\* during the reference scan.  Stated for runs in which nothing else fails.
C31_UnreadableDocumentKeepsAttachment ==
    faultKinds \subseteq {"open"} =>
        \A f \in DOMAIN docs0 : \A p \in DOMAIN imgs0 :
            References(f, docs0[f], p) => p \notin RemovedIn("gc")

(***************************************************************************)
(* Further properties of the inserter and of the screens.                  *)
(***************************************************************************)
\* C32: at every point in time a file that a call of the inserter created
\* holds the complete encoded bytes of the picture of that call, so a call
\* that returns a filename returns the name of a file with the bytes whose
\* digest is in the name.
C32_InsertedFileIsComplete ==
    \A i \in 1..Len(calls) :
        /\ \A p \in calls[i].created :
              p \in DOMAIN imgs => imgs[p] = EncodedImage(calls[i].data)
        /\ calls[i].err = "" =>
              calls[i].after[PathOf(calls[i])] = EncodedImage(calls[i].data)

\* Whether the text holds the markup m.
HoldsMarkup(text, m) ==
    \E i \in 1..(Len(text) - Len(m) + 1) : SubSeq(text, i, i + Len(m) - 1) = m

\* The pasted files whose markup the file of the editor holds on disk.
SavedPastes ==
    {p \in pasted :
        edFile \in DOMAIN docs
        /\ HoldsMarkup(docs[edFile], PasteImageMarkdown(p[Len(p)]))}

\* C33: the markup the editor inserts for a pasted image, once saved into
\* the document, is read by the scanner as a reference that resolves to the
\* file the insert wrote, whichever directory of its tree the document is in.
C33_PastedMarkupResolves ==
    \A p \in SavedPastes : References(edFile, docs[edFile], p)

\* C34: while the buffer of the editor has not been saved, no file written by
\* a paste of the session is missing from the disk, whatever a maintenance
\* run of another process does in between.
C34_UnsavedPasteSurvivesCleanup ==
    saves = 0 => \A p \in pasted : p \in DOMAIN imgs

\* What holds of the cleanup screen in every state.
ScreenInvariant ==
    /\ started <= 1
    /\ received <= 1
    /\ received = 1 => started = 1
    /\ done <=> received = 1
    /\ ~done => appStats = ZeroStats /\ appErr = ""
    /\ completeMsg.sent => received = 0 /\ pc = "done"

\* What holds of every step of the cleanup screen.
ScreenStep ==
    /\ done => done'
    /\ started' # started => started = 0 /\ run = 0 /\ lastKey = ""
    /\ run' # run => started = 1
    /\ (appStats' # appStats \/ appErr' # appErr \/ done' # done) =>
          /\ completeMsg.sent
          /\ received' = received + 1
          /\ appStats' = completeMsg.stats
          /\ appErr' = completeMsg.err
    /\ (done /\ ~tickPending) => ~tickPending'
    /\ (done /\ tickPending /\ received' = received /\ lastKey' = lastKey
        /\ exited' = exited /\ quitting' = quitting) => ~tickPending'

\* C35: the cleanup screen starts the run at most once, from Init and
\* before any key is handled, and handles at most one completion message;
\* done is false until that message is handled, true from then on; stats
\* and err change only when it is handled and take its values; once done is
\* true no spinner tick is scheduled again; and unless the screen quits
\* first, the run is started and its completion message is handled.
C35_OneRunOneCompletion ==
    /\ []ScreenInvariant
    /\ [][ScreenStep]_vars
    /\ (command = "clean images") ~> (done \/ quitting)

C35_Witness ==
    /\ command = "clean images"
    /\ done
    /\ started = 1
    /\ received = 1
    /\ run = 1
    /\ ~tickPending
    /\ appStats = stats
    /\ appStats # ZeroStats
    /\ ~quitting

\* C36: on the cleanup screen a key pressed while the run is in progress
\* quits exactly when it is ctrl+c, and a key pressed after the completion
\* message was handled always quits.
C36_AnyKeyExitsAfterCompletion ==
    [][(command = "clean images" /\ lastKey' # lastKey) =>
          IF done THEN quitting' ELSE (quitting' <=> lastKey' = "ctrl+c")]_vars

\* C37: when the "clean" command has returned after enter was pressed on
\* "Clean Images", a maintenance run has been started; when it has
\* returned in any other way, none has.
C37_MenuRunsCleanup ==
    (command = "clean" /\ exited) =>
        IF entered = "images" THEN started >= 1 \/ run >= 1
        ELSE started = 0 /\ run = 0

\* Whether the name carries the digest prefix directly before ".png".
EmbedsPrefix(name, hash) ==
    /\ Len(name) >= PrefixLen + Len(PngExt)
    /\ SubSeq(name, Len(name) - Len(PngExt) + 1, Len(name)) = PngExt
    /\ SubSeq(name, Len(name) - Len(PngExt) - PrefixLen + 1,
              Len(name) - Len(PngExt)) = SubSeq(hash, 1, PrefixLen)

\* C38: a call of findImageByHash does not panic, whatever names the
\* directory holds; it returns a file of the directory whose name carries
\* the digest prefix directly before ".png", or the error "no matching
\* image found".
C38_FindImageByHashInRange ==
    findResult # NoResult =>
        /\ ~findResult.panic
        /\ \/ /\ findResult.err = ""
              /\ findResult.file \in findDir
              /\ EmbedsPrefix(findResult.file, findHash)
           \/ /\ findResult.err = "no matching image found"
              /\ findResult.file = <<>>

====
